---- MODULE Spec2Model ----
(***************************************************************************)
(* promo-targeting: campaign / vault / coupon state machine.               *)
(*                                                                         *)
(* Every instruction is one action.  An instruction is the pipeline        *)
(*   <Name>Accounts  (the #[derive(Accounts)] struct: deserialisation,     *)
(*                    init, seeds / has_one / constraint checks)           *)
(*   <name>          (the handler body, statement by statement)            *)
(*   <Name>Exit      (close = ..., where the struct has one)               *)
(* run on a copy S of the ledger.  A step returns [err, st]: st holds the  *)
(* writes made up to the point where the pipeline stopped.  Commit keeps   *)
(* st only when err = "Ok" (the transaction is reverted otherwise).        *)
(*                                                                         *)
(* Balances are custody balances net of the storage deposit of an account  *)
(* (rent is paid in and refunded by the host and is not tracked here).     *)
(***************************************************************************)
EXTENDS Integers, Sequences, FiniteSets, TLC

VARIABLES config, campaigns, vaults, coupons, lamports, now

vars == <<config, campaigns, vaults, coupons, lamports, now>>

ledger == <<config, campaigns, vaults, coupons, lamports>>

----------------------------------------------------------------------------
(* Bounds of the model *)

MaxClock == 2
U64Bits == 27
U32Bits == 4

MaxU64 == 2^U64Bits - 1
MaxU32 == 2^U32Bits - 1

(* Program constants *)

BpsDenominator == 10000
MaxBps == 10000
MAX_NAME_LEN == 64
DISCRIMINATOR_LEN == 8
GlobalConfigSIZE == 32 + 2 + 2
LegacyGlobalConfigSIZE == 32 + 2
None == -1

----------------------------------------------------------------------------
(* Addresses.  Every account is named by a string. *)

DefaultPubkey == "default"
Admin == "ad"
Merchants == {"m1"}
Users == {"u1", "u2"}
Treasury == "tr"
Signers == {Admin} \cup Merchants \cup Users
Wallets == Signers \cup {Treasury}

CampaignIds == {1, 2}
CouponIndexes == {0}

CampaignPda(merchant, campaign_id) ==
    CASE merchant = "m1" /\ campaign_id = 1 -> "c1"
      [] merchant = "m1" /\ campaign_id = 2 -> "c2"
      [] OTHER -> "c0"

VaultPda(campaign) ==
    CASE campaign = "c1" -> "v1"
      [] campaign = "c2" -> "v2"
      [] OTHER -> "v0"

CouponPda(campaign, coupon_index) ==
    CASE campaign = "c1" /\ coupon_index = 0 -> "k10"
      [] campaign = "c1" /\ coupon_index = 1 -> "k11"
      [] campaign = "c2" /\ coupon_index = 0 -> "k20"
      [] campaign = "c2" /\ coupon_index = 1 -> "k21"
      [] OTHER -> "k0"

CampaignAddrs == {CampaignPda(m, i) : m \in Merchants, i \in CampaignIds}
VaultAddrs == {VaultPda(c) : c \in CampaignAddrs}
CouponAddrs == {CouponPda(c, i) : c \in CampaignAddrs, i \in CouponIndexes}
LamportAccounts == Wallets \cup VaultAddrs

----------------------------------------------------------------------------
(* Checked arithmetic of u64 / u32: None on overflow. *)

checked_add(a, b) == IF a + b > MaxU64 THEN None ELSE a + b

checked_add_u32(a, b) == IF a + b > MaxU32 THEN None ELSE a + b

checked_sub(a, b) == IF a < b THEN None ELSE a - b

\* A product that saturates instead of failing.
checked_mul_saturating(a, b) ==
    IF b # 0 /\ a > MaxU64 \div b THEN MaxU64 ELSE a * b

checked_mul(a, b) == IF b # 0 /\ a > MaxU64 \div b THEN None ELSE a * b

----------------------------------------------------------------------------
(* The ledger as one value, and step results. *)

Cur ==
    [config |-> config, campaigns |-> campaigns, vaults |-> vaults,
     coupons |-> coupons, lamports |-> lamports]

Ok(S) == [err |-> "Ok", st |-> S, discount |-> 0, fee |-> 0]

Err(e, S) == [err |-> e, st |-> S, discount |-> 0, fee |-> 0]

Put(f, k, v) == [x \in DOMAIN f \cup {k} |-> IF x = k THEN v ELSE f[x]]

Del(f, k) == [x \in DOMAIN f \ {k} |-> f[x]]

NoConfig ==
    [len |-> 0, admin |-> DefaultPubkey, max_resale_bps |-> 0,
     service_fee_bps |-> 0]

ZeroCampaign ==
    [merchant |-> DefaultPubkey, campaign_id |-> 0, discount_bps |-> 0,
     service_fee_bps |-> 0, resale_bps |-> 0, expiration_timestamp |-> 0,
     total_coupons |-> 0, used_coupons |-> 0, minted_coupons |-> 0,
     mint_cost_lamports |-> 0, max_discount_lamports |-> 0,
     category_code |-> 0, product_code |-> 0, campaign_name |-> "",
     requires_wallet |-> FALSE, target_wallet |-> DefaultPubkey,
     total_purchase_amount |-> 0, total_discount_lamports |-> 0,
     last_redeem_timestamp |-> 0]

ZeroVault ==
    [campaign |-> DefaultPubkey, merchant |-> DefaultPubkey,
     total_deposit |-> 0, total_mint_spent |-> 0, total_service_spent |-> 0]

ZeroCoupon ==
    [campaign |-> DefaultPubkey, coupon_index |-> 0, owner |-> DefaultPubkey,
     used |-> FALSE, listed |-> FALSE, sale_price_lamports |-> 0]

----------------------------------------------------------------------------
(* Fund movement *)

\* utils.rs: the two balances are read first and written afterwards, the
\* destination last.
transfer_lamports(S, from, to, amount) ==
    LET from_lamports == S.lamports[from]
        to_lamports == S.lamports[to]
        new_from == checked_sub(from_lamports, amount)
        new_to == checked_add(to_lamports, amount)
    IN  IF ~(from_lamports >= amount) THEN Err("InsufficientVaultBalance", S)
        ELSE IF new_from = None THEN Err("Overflow", S)
        ELSE IF new_to = None THEN Err("Overflow", S)
        ELSE Ok([S EXCEPT !.lamports =
                    [[S.lamports EXCEPT ![from] = new_from] EXCEPT ![to] = new_to]])

\* The host accepts an instruction only if it leaves the sum of the balances
\* of its accounts unchanged; writing both ends of a transfer through two
\* handles of one account does not.
TotalLamports(S) ==
    LET RECURSIVE Sum(_)
        Sum(A) == IF A = {} THEN 0
                  ELSE LET a == CHOOSE x \in A : TRUE
                       IN  S.lamports[a] + Sum(A \ {a})
    IN  Sum(DOMAIN S.lamports)

RuntimeBalanced(S, r) ==
    IF r.err = "Ok" /\ TotalLamports(r.st) # TotalLamports(S)
    THEN [r EXCEPT !.err = "UnbalancedInstruction"]
    ELSE r

\* system_program::transfer between two signer-authorised / plain accounts.
system_transfer(S, from, to, amount) ==
    IF S.lamports[from] < amount THEN Err("InsufficientFunds", S)
    ELSE Ok([S EXCEPT !.lamports =
                [S.lamports EXCEPT ![from] = @ - amount, ![to] = @ + amount]])

----------------------------------------------------------------------------
(* PolicyStore (GlobalConfig) *)

CurrentConfigLen == DISCRIMINATOR_LEN + GlobalConfigSIZE
LegacyConfigLen == DISCRIMINATOR_LEN + LegacyGlobalConfigSIZE

\* An existing record taken over (init_if_needed).
InitializeConfigAccountsIfNeeded(S, admin) ==
    Ok([S EXCEPT !.config = [NoConfig EXCEPT !.len = CurrentConfigLen]])

\* #[account(init, seeds = [b"config"])]: the address must be unused.
InitializeConfigAccounts(S, admin) ==
    IF S.config.len # 0 THEN Err("AlreadyInUse", S)
    ELSE Ok([S EXCEPT !.config = [NoConfig EXCEPT !.len = CurrentConfigLen]])

initialize_config(S, admin, max_resale_bps, service_fee_bps) ==
    IF ~(max_resale_bps <= MaxBps) THEN Err("InvalidBps", S)
    ELSE IF ~(service_fee_bps <= MaxBps) THEN Err("InvalidBps", S)
    ELSE Ok([S EXCEPT !.config =
                [len |-> S.config.len, admin |-> admin,
                 max_resale_bps |-> max_resale_bps,
                 service_fee_bps |-> service_fee_bps]])

\* The caller not compared with the stored admin.
upgrade_config_any_caller(S, admin, max_resale_bps, service_fee_bps) ==
    LET ADMIN_END == DISCRIMINATOR_LEN + 32
        room == S.config.len - DISCRIMINATOR_LEN
        zeroed == [S EXCEPT !.config = [NoConfig EXCEPT !.len = S.config.len]]
    IN  IF ~(max_resale_bps <= MaxBps) THEN Err("InvalidBps", S)
        ELSE IF ~(service_fee_bps <= MaxBps) THEN Err("InvalidBps", S)
        ELSE IF ~(S.config.len >= ADMIN_END + 2) THEN Err("InvalidConfigAccount", S)
        ELSE IF S.config.len # CurrentConfigLen THEN Err("AccountBorrowFailed", S)
        ELSE IF room < DISCRIMINATOR_LEN + GlobalConfigSIZE
             THEN Err("AccountDidNotSerialize", zeroed)
        ELSE Ok([zeroed EXCEPT !.config.admin = "discriminator"])

\* AccountSerialize::try_serialize of an #[account] struct writes the 8-byte
\* discriminator and then the fields.
GlobalConfigSerializedLen == DISCRIMINATOR_LEN + GlobalConfigSIZE

\* The record is taken as raw bytes; the admin is read from the prefix.  When
\* the size differs from the current layout the handler calls realloc (and a
\* CPI transfer) on the account while its data is still mutably borrowed.
\* Otherwise data[DISCRIMINATOR_LEN..] is zeroed and the new value is
\* serialised into it through a cursor: the write fails when the slice is
\* shorter than what try_serialize writes, and a write that fitted would
\* leave the discriminator where the admin is read from.
upgrade_config(S, admin, max_resale_bps, service_fee_bps) ==
    LET ADMIN_END == DISCRIMINATOR_LEN + 32
        existing_admin == S.config.admin
        room == S.config.len - DISCRIMINATOR_LEN
        zeroed == [S EXCEPT !.config = [NoConfig EXCEPT !.len = S.config.len]]
    IN  IF ~(max_resale_bps <= MaxBps) THEN Err("InvalidBps", S)
        ELSE IF ~(service_fee_bps <= MaxBps) THEN Err("InvalidBps", S)
        ELSE IF ~(S.config.len >= ADMIN_END + 2) THEN Err("InvalidConfigAccount", S)
        ELSE IF existing_admin # admin THEN Err("NotAdmin", S)
        ELSE IF S.config.len # CurrentConfigLen THEN Err("AccountBorrowFailed", S)
        ELSE IF room < GlobalConfigSerializedLen
             THEN Err("AccountDidNotSerialize", zeroed)
        ELSE Ok([zeroed EXCEPT !.config.admin = "discriminator"])

\* Account<GlobalConfig>: exists and deserialises with the current layout.
ConfigAccountErr(S) ==
    IF S.config.len = 0 THEN "AccountNotInitialized"
    ELSE IF S.config.len < CurrentConfigLen THEN "AccountDidNotDeserialize"
    ELSE "Ok"

----------------------------------------------------------------------------
(* Campaign creation *)

\* Existing campaign and vault records taken as they are (init_if_needed).
CreateCampaignAccountsIfNeeded(S, merchant, campaign_id) ==
    LET campaign == CampaignPda(merchant, campaign_id)
        vault == VaultPda(campaign)
    IN  IF ConfigAccountErr(S) # "Ok" THEN Err(ConfigAccountErr(S), S)
        ELSE Ok([S EXCEPT !.campaigns = Put(S.campaigns, campaign, ZeroCampaign),
                          !.vaults = Put(S.vaults, vault, ZeroVault)])

\* config is deserialised, then campaign and vault are created (init) at
\* their derived addresses, all before the handler runs.
CreateCampaignAccounts(S, merchant, campaign_id) ==
    LET campaign == CampaignPda(merchant, campaign_id)
        vault == VaultPda(campaign)
    IN  IF ConfigAccountErr(S) # "Ok" THEN Err(ConfigAccountErr(S), S)
        ELSE IF campaign \in DOMAIN S.campaigns THEN Err("AlreadyInUse", S)
        ELSE IF vault \in DOMAIN S.vaults THEN Err("AlreadyInUse", S)
        ELSE Ok([S EXCEPT !.campaigns = Put(S.campaigns, campaign, ZeroCampaign),
                          !.vaults = Put(S.vaults, vault, ZeroVault)])

\* The target wallet of a targeted campaign not asked for.
target_wallet_optional(a) == TRUE

\* if requires_wallet { require!(target_wallet != Pubkey::default()) }
target_wallet_provided(a) ==
    a.requires_wallet => a.target_wallet # DefaultPubkey

\* The policy's bound on resale_bps left out.
resale_within_policy_any(S, a) == TRUE

\* require!(resale_bps <= config.max_resale_bps)
resale_within_policy(S, a) == a.resale_bps <= S.config.max_resale_bps

\* The fee of the campaign left at zero.
snapshot_service_fee_bps_unset(S) == 0

\* campaign.service_fee_bps = config.service_fee_bps
snapshot_service_fee_bps(S) == S.config.service_fee_bps

create_campaign(S, merchant, campaign_id, a) ==
    LET campaign == CampaignPda(merchant, campaign_id)
        vault == VaultPda(campaign)
        new_campaign ==
            [merchant |-> merchant, campaign_id |-> campaign_id,
             discount_bps |-> a.discount_bps,
             service_fee_bps |-> snapshot_service_fee_bps(S),
             resale_bps |-> a.resale_bps,
             expiration_timestamp |-> a.expiration_timestamp,
             total_coupons |-> a.total_coupons, used_coupons |-> 0,
             minted_coupons |-> 0,
             mint_cost_lamports |-> a.mint_cost_lamports,
             max_discount_lamports |-> a.max_discount_lamports,
             category_code |-> a.category_code,
             product_code |-> a.product_code,
             campaign_name |-> a.campaign_name,
             requires_wallet |-> a.requires_wallet,
             target_wallet |-> IF a.requires_wallet THEN a.target_wallet
                               ELSE DefaultPubkey,
             total_purchase_amount |-> 0, total_discount_lamports |-> 0,
             last_redeem_timestamp |-> 0]
        new_vault ==
            [campaign |-> campaign, merchant |-> merchant,
             total_deposit |-> a.deposit_amount, total_mint_spent |-> 0,
             total_service_spent |-> 0]
        S1 == [S EXCEPT !.campaigns[campaign] = new_campaign,
                        !.vaults[vault] = new_vault]
    IN  IF ~(a.discount_bps <= MaxBps) THEN Err("InvalidBps", S)
        ELSE IF ~(a.resale_bps <= MaxBps) THEN Err("InvalidBps", S)
        ELSE IF ~(a.total_coupons > 0) THEN Err("InvalidTotalCoupons", S)
        ELSE IF ~(a.mint_cost_lamports > 0) THEN Err("InvalidMintCost", S)
        ELSE IF ~(a.max_discount_lamports > 0) THEN Err("InvalidMaxDiscount", S)
        ELSE IF ~(a.deposit_amount > 0) THEN Err("InvalidDepositAmount", S)
        ELSE IF ~resale_within_policy(S, a) THEN Err("InvalidResalePrice", S)
        ELSE IF ~target_wallet_provided(a) THEN Err("TargetWalletRequired", S)
        ELSE IF ~(Len(a.campaign_name) <= MAX_NAME_LEN) THEN Err("NameTooLong", S)
        ELSE system_transfer(S1, merchant, vault, a.deposit_amount)

----------------------------------------------------------------------------
(* Coupon issuance *)

\* The campaign address not tied to the signer (no seeds constraint).
MintCouponAccountsUnseeded(S, merchant, campaign, campaign_id, coupon_index) ==
    LET vault == VaultPda(campaign)
        coupon == CouponPda(campaign, coupon_index)
    IN  IF campaign \notin DOMAIN S.campaigns THEN Err("AccountNotInitialized", S)
        ELSE IF vault \notin DOMAIN S.vaults THEN Err("AccountNotInitialized", S)
        ELSE IF coupon \in DOMAIN S.coupons THEN Err("AlreadyInUse", S)
        ELSE Ok([S EXCEPT !.coupons = Put(S.coupons, coupon, ZeroCoupon)])

\* The coupon taken as it is when it exists already (init_if_needed).
MintCouponAccountsIfNeeded(S, merchant, campaign, campaign_id, coupon_index) ==
    LET vault == VaultPda(campaign)
        coupon == CouponPda(campaign, coupon_index)
    IN  IF campaign \notin DOMAIN S.campaigns THEN Err("AccountNotInitialized", S)
        ELSE IF vault \notin DOMAIN S.vaults THEN Err("AccountNotInitialized", S)
        ELSE IF campaign # CampaignPda(merchant, campaign_id)
             THEN Err("ConstraintSeeds", S)
        ELSE IF coupon \in DOMAIN S.coupons THEN Ok(S)
        ELSE Ok([S EXCEPT !.coupons = Put(S.coupons, coupon, ZeroCoupon)])

\* campaign and vault are deserialised, the coupon is created (init), then
\* the seeds of campaign and vault are checked against merchant/campaign_id.
MintCouponAccounts(S, merchant, campaign, campaign_id, coupon_index) ==
    LET vault == VaultPda(campaign)
        coupon == CouponPda(campaign, coupon_index)
    IN  IF campaign \notin DOMAIN S.campaigns THEN Err("AccountNotInitialized", S)
        ELSE IF vault \notin DOMAIN S.vaults THEN Err("AccountNotInitialized", S)
        ELSE IF coupon \in DOMAIN S.coupons THEN Err("AlreadyInUse", S)
        ELSE IF campaign # CampaignPda(merchant, campaign_id)
             THEN Err("ConstraintSeeds", S)
        ELSE Ok([S EXCEPT !.coupons = Put(S.coupons, coupon, ZeroCoupon)])

\* The targeting check left out.
eligible_anyone(c, recipient) == TRUE

\* if campaign.requires_wallet { require_keys_eq!(recipient, target_wallet) }
eligible_recipient(c, recipient) ==
    c.requires_wallet => recipient = c.target_wallet

\* The owner of the new coupon never written.
minted_coupon_unowned(campaign, coupon_index, recipient) ==
    [campaign |-> campaign, coupon_index |-> coupon_index,
     owner |-> DefaultPubkey, used |-> FALSE, listed |-> FALSE,
     sale_price_lamports |-> 0]

\* coupon.campaign = ...; coupon.owner = recipient.key(); ...
minted_coupon(campaign, coupon_index, recipient) ==
    [campaign |-> campaign, coupon_index |-> coupon_index,
     owner |-> recipient, used |-> FALSE, listed |-> FALSE,
     sale_price_lamports |-> 0]

\* The supply check off by one.
coupons_left_to_mint_inclusive(c) == c.minted_coupons <= c.total_coupons

\* require!(campaign.minted_coupons < campaign.total_coupons)
coupons_left_to_mint(c) == c.minted_coupons < c.total_coupons

\* The mint cost left out of the vault's analytics.
mint_spent_unrecorded(v, mint_cost) == v.total_mint_spent

\* vault.total_mint_spent.checked_add(mint_cost), None on overflow
mint_spent(v, mint_cost) == checked_add(v.total_mint_spent, mint_cost)

mint_coupon(S, merchant, campaign, campaign_id, coupon_index, recipient, platform_treasury) ==
    LET c == S.campaigns[campaign]
        vault == VaultPda(campaign)
        coupon == CouponPda(campaign, coupon_index)
        mint_cost == c.mint_cost_lamports
        vault_lamports == S.lamports[vault]
        T == transfer_lamports(S, vault, platform_treasury, mint_cost)
        spent == mint_spent(T.st.vaults[vault], mint_cost)
        S2 == [T.st EXCEPT !.vaults[vault].total_mint_spent = spent]
        S3 == [S2 EXCEPT !.coupons[coupon] =
                  minted_coupon(campaign, coupon_index, recipient)]
        minted == checked_add_u32(c.minted_coupons, 1)
    IN  IF ~(c.campaign_id = campaign_id) THEN Err("InvalidCampaignId", S)
        ELSE IF ~coupons_left_to_mint(c) THEN Err("NoCouponsLeft", S)
        ELSE IF ~(mint_cost > 0) THEN Err("InvalidMintCost", S)
        ELSE IF ~eligible_recipient(c, recipient)
             THEN Err("NotEligibleForCampaign", S)
        ELSE IF ~(vault_lamports >= mint_cost)
             THEN Err("InsufficientVaultBalance", S)
        ELSE IF T.err # "Ok" THEN T
        ELSE IF spent = None THEN Err("Overflow", T.st)
        ELSE IF minted = None THEN Err("Overflow", S3)
        ELSE Ok([S3 EXCEPT !.campaigns[campaign].minted_coupons = minted])

----------------------------------------------------------------------------
(* Redemption *)

\* campaign, vault and coupon are deserialised; then has_one = campaign and
\* the owner constraint of the coupon are checked.
RedeemCouponAccounts(S, user, campaign, coupon) ==
    IF campaign \notin DOMAIN S.campaigns THEN Err("AccountNotInitialized", S)
    ELSE IF VaultPda(campaign) \notin DOMAIN S.vaults
         THEN Err("AccountNotInitialized", S)
    ELSE IF coupon \notin DOMAIN S.coupons THEN Err("AccountNotInitialized", S)
    ELSE IF S.coupons[coupon].campaign # campaign
         THEN Err("InvalidCouponCampaign", S)
    ELSE IF ~(S.coupons[coupon].owner = user) THEN Err("NotCouponOwner", S)
    ELSE Ok(S)

\* The expiry check left out.
not_expired_ever(clock, c) == TRUE

\* require!(clock.unix_timestamp <= campaign.expiration_timestamp)
not_expired(clock, c) == clock <= c.expiration_timestamp

\* The cap left out.
cap_discount_none(uncapped, c) == uncapped

\* if discount_value > max_discount_lamports { discount_value = max_... }
cap_discount(uncapped, c) ==
    IF uncapped > c.max_discount_lamports THEN c.max_discount_lamports
    ELSE uncapped

\* The fee rounded up instead of down.
service_fee_rounded_up(fee_mul) ==
    (fee_mul + BpsDenominator - 1) \div BpsDenominator

\* discount_value.checked_mul(service_fee_bps)? / 10_000
service_fee(fee_mul) == fee_mul \div BpsDenominator

redeem_coupon(S, clock, user, campaign, coupon, purchase_amount, product_code, platform_treasury) ==
    LET c == S.campaigns[campaign]
        k == S.coupons[coupon]
        vault == VaultPda(campaign)
        raw == checked_mul(purchase_amount, c.discount_bps)
        uncapped == raw \div BpsDenominator
        discount_value == cap_discount(uncapped, c)
        fee_mul == checked_mul(discount_value, c.service_fee_bps)
        service_fee_value == service_fee(fee_mul)
        vault_lamports == S.lamports[vault]
        T == transfer_lamports(S, vault, platform_treasury, service_fee_value)
        spent == checked_add(T.st.vaults[vault].total_service_spent,
                             service_fee_value)
        S1 == IF service_fee_value > 0
              THEN [T.st EXCEPT !.vaults[vault].total_service_spent = spent]
              ELSE S
        S2 == [S1 EXCEPT !.coupons[coupon].used = TRUE,
                         !.coupons[coupon].listed = FALSE,
                         !.coupons[coupon].sale_price_lamports = 0]
        used == checked_add_u32(c.used_coupons, 1)
        S3 == [S2 EXCEPT !.campaigns[campaign].used_coupons = used]
        purchase_total == checked_add(c.total_purchase_amount, purchase_amount)
        S4 == [S3 EXCEPT !.campaigns[campaign].total_purchase_amount =
                            purchase_total]
        discount_total == checked_add(c.total_discount_lamports, discount_value)
        S5 == [S4 EXCEPT !.campaigns[campaign].total_discount_lamports =
                            discount_total,
                         !.campaigns[campaign].last_redeem_timestamp = clock]
    IN  IF ~not_expired(clock, c) THEN Err("CampaignExpired", S)
        ELSE IF ~(product_code = c.product_code)
             THEN Err("InvalidProductForCoupon", S)
        ELSE IF ~(c.used_coupons < c.total_coupons) THEN Err("NoCouponsLeft", S)
        ELSE IF k.used THEN Err("CouponAlreadyUsed", S)
        ELSE IF k.listed THEN Err("CouponListed", S)
        ELSE IF k.owner # user THEN Err("NotCouponOwner", S)
        ELSE IF raw = None THEN Err("Overflow", S)
        ELSE IF fee_mul = None THEN Err("Overflow", S)
        ELSE IF service_fee_value > 0 /\ ~(vault_lamports >= service_fee_value)
             THEN Err("InsufficientVaultBalance", S)
        ELSE IF service_fee_value > 0 /\ T.err # "Ok" THEN T
        ELSE IF service_fee_value > 0 /\ spent = None THEN Err("Overflow", T.st)
        ELSE IF used = None THEN Err("Overflow", S2)
        ELSE IF purchase_total = None THEN Err("Overflow", S3)
        ELSE IF discount_total = None THEN Err("Overflow", S4)
        ELSE [err |-> "Ok", st |-> S5, discount |-> discount_value,
              fee |-> service_fee_value]

\* The coupon record kept (no close).
RedeemCouponExitKeep(S, coupon) == S

\* close = user: the coupon record is destroyed when the handler succeeded.
RedeemCouponExit(S, coupon) == [S EXCEPT !.coupons = Del(S.coupons, coupon)]

----------------------------------------------------------------------------
(* Marketplace *)

ListCouponForSaleAccounts(S, owner, campaign, coupon) ==
    IF campaign \notin DOMAIN S.campaigns THEN Err("AccountNotInitialized", S)
    ELSE IF coupon \notin DOMAIN S.coupons THEN Err("AccountNotInitialized", S)
    ELSE IF S.coupons[coupon].campaign # campaign
         THEN Err("InvalidCouponCampaign", S)
    ELSE IF ~(S.coupons[coupon].owner = owner) THEN Err("NotCouponOwner", S)
    ELSE Ok(S)

\* The resale share left out of the cap.
list_max_allowed_full(c) == c.max_discount_lamports

\* max_allowed = max_discount_lamports * resale_bps / 10_000, None on overflow
list_max_allowed(c) ==
    LET mul == checked_mul(c.max_discount_lamports, c.resale_bps)
    IN  IF mul = None THEN None ELSE mul \div BpsDenominator

\* The double-listing check left out.
list_coupon_for_sale_again(S, owner, campaign, coupon, sale_price_lamports) ==
    LET c == S.campaigns[campaign]
        k == S.coupons[coupon]
        max_allowed == list_max_allowed(c)
    IN  IF k.owner # owner THEN Err("NotCouponOwner", S)
        ELSE IF k.used THEN Err("CouponAlreadyUsed", S)
        ELSE IF ~(sale_price_lamports > 0) THEN Err("InvalidResalePrice", S)
        ELSE IF ~(sale_price_lamports <= c.max_discount_lamports)
             THEN Err("InvalidResalePrice", S)
        ELSE IF max_allowed = None THEN Err("Overflow", S)
        ELSE IF ~(sale_price_lamports <= max_allowed)
             THEN Err("InvalidResalePrice", S)
        ELSE Ok([S EXCEPT !.coupons[coupon].listed = TRUE,
                          !.coupons[coupon].sale_price_lamports =
                              sale_price_lamports])

list_coupon_for_sale(S, owner, campaign, coupon, sale_price_lamports) ==
    LET c == S.campaigns[campaign]
        k == S.coupons[coupon]
        max_allowed == list_max_allowed(c)
    IN  IF k.owner # owner THEN Err("NotCouponOwner", S)
        ELSE IF k.used THEN Err("CouponAlreadyUsed", S)
        ELSE IF k.listed THEN Err("CouponAlreadyListed", S)
        ELSE IF ~(sale_price_lamports > 0) THEN Err("InvalidResalePrice", S)
        ELSE IF ~(sale_price_lamports <= c.max_discount_lamports)
             THEN Err("InvalidResalePrice", S)
        ELSE IF max_allowed = None THEN Err("Overflow", S)
        ELSE IF ~(sale_price_lamports <= max_allowed)
             THEN Err("InvalidResalePrice", S)
        ELSE Ok([S EXCEPT !.coupons[coupon].listed = TRUE,
                          !.coupons[coupon].sale_price_lamports =
                              sale_price_lamports])

BuyListedCouponAccounts(S, campaign, coupon) ==
    IF campaign \notin DOMAIN S.campaigns THEN Err("AccountNotInitialized", S)
    ELSE IF coupon \notin DOMAIN S.coupons THEN Err("AccountNotInitialized", S)
    ELSE IF S.coupons[coupon].campaign # campaign
         THEN Err("InvalidCouponCampaign", S)
    ELSE Ok(S)

\* The self-purchase check left out.
buyer_is_anyone(buyer, seller) == TRUE

\* require!(buyer.key() != seller.key())
buyer_is_not_seller(buyer, seller) == buyer # seller

\* The price kept on the coupon after the sale.
sold_to_price_kept(k, buyer) == [k EXCEPT !.owner = buyer, !.listed = FALSE]

\* The listing left in place after the sale.
sold_to_still_listed(k, buyer) == [k EXCEPT !.owner = buyer]

\* coupon.owner = buyer; coupon.listed = false; coupon.sale_price_lamports = 0
sold_to(k, buyer) ==
    [k EXCEPT !.owner = buyer, !.listed = FALSE, !.sale_price_lamports = 0]

buy_listed_coupon(S, buyer, seller, campaign, coupon) ==
    LET c == S.campaigns[campaign]
        k == S.coupons[coupon]
        sale_price == k.sale_price_lamports
        mul == checked_mul(c.max_discount_lamports, c.resale_bps)
        max_allowed == mul \div BpsDenominator
        T == system_transfer(S, buyer, seller, sale_price)
    IN  IF k.campaign # campaign THEN Err("InvalidCouponCampaign", S)
        ELSE IF ~k.listed THEN Err("CouponNotListed", S)
        ELSE IF k.owner # seller THEN Err("NotCouponOwner", S)
        ELSE IF ~buyer_is_not_seller(buyer, seller) THEN Err("InvalidBuyer", S)
        ELSE IF ~(sale_price > 0) THEN Err("InvalidResalePrice", S)
        ELSE IF ~(sale_price <= c.max_discount_lamports)
             THEN Err("InvalidResalePrice", S)
        ELSE IF mul = None THEN Err("Overflow", S)
        ELSE IF ~(sale_price <= max_allowed) THEN Err("InvalidResalePrice", S)
        ELSE IF T.err # "Ok" THEN T
        ELSE Ok([T.st EXCEPT !.coupons[coupon] = sold_to(k, buyer)])

\* The owner constraint of the coupon left out.
TransferCouponAccountsAnySigner(S, current_owner, coupon) ==
    IF coupon \notin DOMAIN S.coupons THEN Err("AccountNotInitialized", S)
    ELSE Ok(S)

TransferCouponAccounts(S, current_owner, coupon) ==
    IF coupon \notin DOMAIN S.coupons THEN Err("AccountNotInitialized", S)
    ELSE IF ~(S.coupons[coupon].owner = current_owner)
         THEN Err("NotCouponOwner", S)
    ELSE Ok(S)

\* The listing left in place when the owner changes.
transfer_coupon_listing_kept(S, coupon, new_owner) ==
    Ok([S EXCEPT !.coupons[coupon].owner = new_owner])

transfer_coupon(S, coupon, new_owner) ==
    Ok([S EXCEPT !.coupons[coupon].owner = new_owner,
                 !.coupons[coupon].listed = FALSE,
                 !.coupons[coupon].sale_price_lamports = 0])

----------------------------------------------------------------------------
(* Vault closure and coupon expiry *)

ExpireCouponAccounts(S, merchant, campaign, coupon) ==
    IF campaign \notin DOMAIN S.campaigns THEN Err("AccountNotInitialized", S)
    ELSE IF coupon \notin DOMAIN S.coupons THEN Err("AccountNotInitialized", S)
    ELSE IF S.campaigns[campaign].merchant # merchant
         THEN Err("ConstraintHasOne", S)
    ELSE IF S.coupons[coupon].campaign # campaign
         THEN Err("InvalidCouponCampaign", S)
    ELSE Ok(S)

\* The listing check left out.
expire_coupon_listed_too(S, clock, merchant, campaign, coupon) ==
    LET c == S.campaigns[campaign]
    IN  IF c.merchant # merchant THEN Err("NotMerchant", S)
        ELSE IF ~(clock > c.expiration_timestamp) THEN Err("CampaignNotExpired", S)
        ELSE Ok(S)

expire_coupon(S, clock, merchant, campaign, coupon) ==
    LET c == S.campaigns[campaign]
        k == S.coupons[coupon]
    IN  IF c.merchant # merchant THEN Err("NotMerchant", S)
        ELSE IF ~(clock > c.expiration_timestamp) THEN Err("CampaignNotExpired", S)
        ELSE IF k.listed THEN Err("CouponListed", S)
        ELSE Ok(S)

\* close = merchant
ExpireCouponExit(S, coupon) == [S EXCEPT !.coupons = Del(S.coupons, coupon)]

CloseCampaignVaultAccounts(S, merchant, campaign) ==
    IF campaign \notin DOMAIN S.campaigns THEN Err("AccountNotInitialized", S)
    ELSE IF VaultPda(campaign) \notin DOMAIN S.vaults
         THEN Err("AccountNotInitialized", S)
    ELSE IF S.campaigns[campaign].merchant # merchant
         THEN Err("ConstraintHasOne", S)
    ELSE Ok(S)

\* The expiry check left out.
close_campaign_vault_anytime(S, clock, merchant, campaign) ==
    LET c == S.campaigns[campaign]
    IN  IF c.merchant # merchant THEN Err("NotMerchant", S) ELSE Ok(S)

close_campaign_vault(S, clock, merchant, campaign) ==
    LET c == S.campaigns[campaign]
    IN  IF c.merchant # merchant THEN Err("NotMerchant", S)
        ELSE IF ~(clock > c.expiration_timestamp) THEN Err("CampaignNotExpired", S)
        ELSE Ok(S)

\* The campaign record destroyed together with its vault.
CloseCampaignVaultExitWithCampaign(S, merchant, campaign) ==
    LET vault == VaultPda(campaign)
    IN  [S EXCEPT !.lamports = [S.lamports EXCEPT ![merchant] = @ + S.lamports[vault],
                                                  ![vault] = 0],
                  !.vaults = Del(S.vaults, vault),
                  !.campaigns = Del(S.campaigns, campaign)]

\* close = merchant: the whole balance of the vault goes to the merchant and
\* the vault record is destroyed.
CloseCampaignVaultExit(S, merchant, campaign) ==
    LET vault == VaultPda(campaign)
    IN  [S EXCEPT !.lamports = [S.lamports EXCEPT ![merchant] = @ + S.lamports[vault],
                                                  ![vault] = 0],
                  !.vaults = Del(S.vaults, vault)]

----------------------------------------------------------------------------
(* Treasury inspection *)

CheckTreasuryBalanceAccounts(S, admin) ==
    IF ConfigAccountErr(S) # "Ok" THEN Err(ConfigAccountErr(S), S)
    ELSE IF S.config.admin # admin THEN Err("ConstraintHasOne", S)
    ELSE Ok(S)

check_treasury_balance(S, platform_treasury) == Ok(S)

----------------------------------------------------------------------------
(* Instructions: accounts, handler, exit. *)

InitializeConfigIx(S, admin, max_resale_bps, service_fee_bps) ==
    LET A == InitializeConfigAccounts(S, admin)
    IN  IF A.err # "Ok" THEN A
        ELSE initialize_config(A.st, admin, max_resale_bps, service_fee_bps)

CreateCampaignIx(S, merchant, campaign_id, a) ==
    LET A == CreateCampaignAccounts(S, merchant, campaign_id)
    IN  IF A.err # "Ok" THEN A
        ELSE create_campaign(A.st, merchant, campaign_id, a)

MintCouponIx(S, merchant, campaign, campaign_id, coupon_index, recipient, platform_treasury) ==
    LET A == MintCouponAccounts(S, merchant, campaign, campaign_id, coupon_index)
    IN  IF A.err # "Ok" THEN A
        ELSE RuntimeBalanced(S,
                 mint_coupon(A.st, merchant, campaign, campaign_id,
                             coupon_index, recipient, platform_treasury))

RedeemCouponIx(S, clock, user, campaign, coupon, purchase_amount, product_code, platform_treasury) ==
    LET A == RedeemCouponAccounts(S, user, campaign, coupon)
        H == redeem_coupon(A.st, clock, user, campaign, coupon, purchase_amount,
                           product_code, platform_treasury)
    IN  IF A.err # "Ok" THEN A
        ELSE IF H.err # "Ok" THEN H
        ELSE RuntimeBalanced(S, [H EXCEPT !.st = RedeemCouponExit(H.st, coupon)])

ListCouponForSaleIx(S, owner, campaign, coupon, sale_price_lamports) ==
    LET A == ListCouponForSaleAccounts(S, owner, campaign, coupon)
    IN  IF A.err # "Ok" THEN A
        ELSE list_coupon_for_sale(A.st, owner, campaign, coupon,
                                  sale_price_lamports)

BuyListedCouponIx(S, buyer, seller, campaign, coupon) ==
    LET A == BuyListedCouponAccounts(S, campaign, coupon)
    IN  IF A.err # "Ok" THEN A
        ELSE buy_listed_coupon(A.st, buyer, seller, campaign, coupon)

TransferCouponIx(S, current_owner, coupon, new_owner) ==
    LET A == TransferCouponAccounts(S, current_owner, coupon)
    IN  IF A.err # "Ok" THEN A ELSE transfer_coupon(A.st, coupon, new_owner)

ExpireCouponIx(S, clock, merchant, campaign, coupon) ==
    LET A == ExpireCouponAccounts(S, merchant, campaign, coupon)
        H == expire_coupon(A.st, clock, merchant, campaign, coupon)
    IN  IF A.err # "Ok" THEN A
        ELSE IF H.err # "Ok" THEN H
        ELSE [H EXCEPT !.st = ExpireCouponExit(H.st, coupon)]

CloseCampaignVaultIx(S, clock, merchant, campaign) ==
    LET A == CloseCampaignVaultAccounts(S, merchant, campaign)
        H == close_campaign_vault(A.st, clock, merchant, campaign)
    IN  IF A.err # "Ok" THEN A
        ELSE IF H.err # "Ok" THEN H
        ELSE [H EXCEPT !.st = CloseCampaignVaultExit(H.st, merchant, campaign)]

CheckTreasuryBalanceIx(S, admin, platform_treasury) ==
    LET A == CheckTreasuryBalanceAccounts(S, admin)
    IN  IF A.err # "Ok" THEN A ELSE check_treasury_balance(A.st, platform_treasury)

----------------------------------------------------------------------------
(* Inputs of the calls *)

\* initialize_config is tried with the policy of the specification's
\* scenario, upgrade_config with a lower resale bound and no fee.
InitializeArgs ==
    {[max_resale_bps |-> 5000, service_fee_bps |-> 200],
     [max_resale_bps |-> 10001, service_fee_bps |-> 200]}

UpgradeArgs ==
    {[max_resale_bps |-> 2500, service_fee_bps |-> 0],
     [max_resale_bps |-> 2500, service_fee_bps |-> 10001]}

\* The campaign of the specification's scenario: open, one coupon.
ScenarioCampaign ==
    [discount_bps |-> 1000, resale_bps |-> 5000, expiration_timestamp |-> 1,
     total_coupons |-> 1, mint_cost_lamports |-> 100,
     max_discount_lamports |-> 5000, category_code |-> 1, product_code |-> 7,
     campaign_name |-> "promo", deposit_amount |-> 1000,
     requires_wallet |-> FALSE, target_wallet |-> DefaultPubkey]

\* A targeted campaign of two coupons whose deposit covers two of the three
\* payments (two mints, one fee) it can be charged.
TargetedCampaign ==
    [discount_bps |-> 1, resale_bps |-> 0, expiration_timestamp |-> 1,
     total_coupons |-> 2, mint_cost_lamports |-> 100,
     max_discount_lamports |-> 5000, category_code |-> 2, product_code |-> 7,
     campaign_name |-> "vip", deposit_amount |-> 200,
     requires_wallet |-> TRUE, target_wallet |-> "u1"]

\* An open campaign whose discount cap times its resale_bps does not fit u64.
LargeCapCampaign ==
    [discount_bps |-> 1000, resale_bps |-> 5000, expiration_timestamp |-> 1,
     total_coupons |-> 1, mint_cost_lamports |-> 100,
     max_discount_lamports |-> 100000, category_code |-> 3, product_code |-> 7,
     campaign_name |-> "cap", deposit_amount |-> 1000,
     requires_wallet |-> FALSE, target_wallet |-> DefaultPubkey]

\* The create_campaign calls that are tried: (campaign_id, arguments).
CreateCalls ==
    {<<1, ScenarioCampaign>>, <<2, TargetedCampaign>>, <<2, LargeCapCampaign>>}

Destinations == {Treasury, "v2"}
Prices == {0, 2500, 2600}
Purchases == {100000, MaxU64}
ProductCodes == {7, 8}
MintSigners == Merchants \cup {"u1"}

----------------------------------------------------------------------------
(* The state machine *)

InitialLamports ==
    [a \in LamportAccounts |->
        CASE a \in Merchants -> 1500
          [] a \in Users -> 3000
          [] OTHER -> 0]

LegacyConfig ==
    [len |-> LegacyConfigLen, admin |-> Admin, max_resale_bps |-> 5000,
     service_fee_bps |-> 0]

Init ==
    /\ config \in {NoConfig, LegacyConfig}
    /\ campaigns = [x \in {} |-> ZeroCampaign]
    /\ vaults = [x \in {} |-> ZeroVault]
    /\ coupons = [x \in {} |-> ZeroCoupon]
    /\ lamports = InitialLamports
    /\ now = 1

\* The writes of a failed instruction kept.
CommitPartial(r) == r.st

\* The transaction commits the writes of a successful instruction and
\* reverts those of a failed one.
Commit(r) == IF r.err = "Ok" THEN r.st ELSE Cur

\* The same for a call that runs on the ledger S instead of the current one.
CommitOn(S, r) == IF r.err = "Ok" THEN r.st ELSE S

\* One call: the ledger becomes what the transaction leaves.  A rejected
\* call (and a successful call that writes nothing new) is a stuttering step.
Apply(r) ==
    LET S == Commit(r)
    IN  /\ config' = S.config
        /\ campaigns' = S.campaigns
        /\ vaults' = S.vaults
        /\ coupons' = S.coupons
        /\ lamports' = S.lamports
        /\ now' = now

InitializeConfig ==
    \E a \in InitializeArgs :
        Apply(InitializeConfigIx(Cur, Admin, a.max_resale_bps, a.service_fee_bps))

UpgradeConfig ==
    \E admin \in {Admin, "u1"}, a \in UpgradeArgs :
        Apply(upgrade_config(Cur, admin, a.max_resale_bps, a.service_fee_bps))

CreateCampaign ==
    \E merchant \in Merchants, call \in CreateCalls :
        Apply(CreateCampaignIx(Cur, merchant, call[1], call[2]))

MintCoupon ==
    \E merchant \in MintSigners, campaign \in CampaignAddrs,
       campaign_id \in CampaignIds, coupon_index \in CouponIndexes,
       recipient \in Users, platform_treasury \in Destinations :
        Apply(MintCouponIx(Cur, merchant, campaign, campaign_id, coupon_index,
                           recipient, platform_treasury))

RedeemCoupon ==
    \E user \in Users, campaign \in CampaignAddrs, coupon \in CouponAddrs,
       purchase_amount \in Purchases, product_code \in ProductCodes,
       platform_treasury \in Destinations :
        Apply(RedeemCouponIx(Cur, now, user, campaign, coupon, purchase_amount,
                             product_code, platform_treasury))

ListCouponForSale ==
    \E owner \in Users, campaign \in CampaignAddrs, coupon \in CouponAddrs,
       sale_price_lamports \in Prices :
        Apply(ListCouponForSaleIx(Cur, owner, campaign, coupon,
                                  sale_price_lamports))

BuyListedCoupon ==
    \E buyer \in Users, seller \in Users, campaign \in CampaignAddrs,
       coupon \in CouponAddrs :
        Apply(BuyListedCouponIx(Cur, buyer, seller, campaign, coupon))

TransferCoupon ==
    \E current_owner \in Users, coupon \in CouponAddrs, new_owner \in Users :
        Apply(TransferCouponIx(Cur, current_owner, coupon, new_owner))

ExpireCoupon ==
    \E merchant \in MintSigners, campaign \in CampaignAddrs,
       coupon \in CouponAddrs :
        Apply(ExpireCouponIx(Cur, now, merchant, campaign, coupon))

CloseCampaignVault ==
    \E merchant \in MintSigners, campaign \in CampaignAddrs :
        Apply(CloseCampaignVaultIx(Cur, now, merchant, campaign))

CheckTreasuryBalance ==
    \E admin \in {Admin, "u1"}, platform_treasury \in {Treasury} :
        Apply(CheckTreasuryBalanceIx(Cur, admin, platform_treasury))

\* The host clock only moves forward.
Tick ==
    /\ now < MaxClock
    /\ now' = now + 1
    /\ UNCHANGED ledger

Next ==
    \/ InitializeConfig
    \/ UpgradeConfig
    \/ CreateCampaign
    \/ MintCoupon
    \/ RedeemCoupon
    \/ ListCouponForSale
    \/ BuyListedCoupon
    \/ TransferCoupon
    \/ ExpireCoupon
    \/ CloseCampaignVault
    \/ CheckTreasuryBalance
    \/ Tick

Spec == Init /\ [][Next]_vars

----------------------------------------------------------------------------
(* Properties *)

\* C1: every campaign has minted_coupons <= total_coupons and used_coupons
\* <= total_coupons in every reachable state, and a mint issued when
\* minted_coupons = total_coupons never succeeds: it is rejected with
\* NoCouponsLeft whenever its accounts pass validation.
C1_CouponCountersBounded ==
    /\ \A c \in DOMAIN campaigns :
          /\ campaigns[c].minted_coupons <= campaigns[c].total_coupons
          /\ campaigns[c].used_coupons <= campaigns[c].total_coupons
    /\ \A merchant \in MintSigners, campaign \in DOMAIN campaigns,
          campaign_id \in CampaignIds, coupon_index \in CouponIndexes,
          recipient \in Users, platform_treasury \in Destinations :
          LET A == MintCouponAccounts(Cur, merchant, campaign, campaign_id,
                                      coupon_index)
              r == MintCouponIx(Cur, merchant, campaign, campaign_id,
                                coupon_index, recipient, platform_treasury)
          IN  campaigns[campaign].minted_coupons
                  = campaigns[campaign].total_coupons
              => /\ r.err # "Ok"
                 /\ A.err = "Ok" => r.err = "NoCouponsLeft"

\* A campaign is fully minted, its coupon address is free again, and a
\* further mint by its merchant is rejected with NoCouponsLeft.
C1_Witness ==
    \E campaign \in DOMAIN campaigns :
        /\ campaigns[campaign].minted_coupons = campaigns[campaign].total_coupons
        /\ campaigns[campaign].used_coupons = campaigns[campaign].total_coupons
        /\ \E coupon_index \in CouponIndexes, recipient \in Users :
              MintCouponIx(Cur, campaigns[campaign].merchant, campaign,
                           campaigns[campaign].campaign_id, coupon_index,
                           recipient, Treasury).err = "NoCouponsLeft"

\* C2: the custody balance of every existing vault is never negative and
\* total_mint_spent + total_service_spent <= total_deposit (no account
\* outside the program ever pays into a vault here: every movement of funds
\* is one of the program's instructions).
C2_VaultSpendingWithinDeposit ==
    \A v \in DOMAIN vaults :
        /\ lamports[v] >= 0
        /\ vaults[v].total_mint_spent + vaults[v].total_service_spent
               <= vaults[v].total_deposit

\* C3: while a vault exists its custody balance equals
\* total_deposit - total_mint_spent - total_service_spent.
C3_VaultBalanceMatchesCounters ==
    \A v \in DOMAIN vaults :
        lamports[v] = vaults[v].total_deposit - vaults[v].total_mint_spent
                          - vaults[v].total_service_spent

\* C4: for every successful redeem the discount is
\* min(floor(purchase_amount * discount_bps / 10000), max_discount), hence
\* at most max_discount, and the fee is
\* floor(discount * service_fee_bps / 10000) with the campaign's own bps.
C4_DiscountAndFeeFormula ==
    \A user \in Users, campaign \in DOMAIN campaigns, coupon \in CouponAddrs,
       purchase_amount \in Purchases, product_code \in ProductCodes,
       platform_treasury \in Destinations :
       LET r == RedeemCouponIx(Cur, now, user, campaign, coupon,
                               purchase_amount, product_code, platform_treasury)
           c == campaigns[campaign]
           raw == (purchase_amount * c.discount_bps) \div 10000
           d == IF raw < c.max_discount_lamports THEN raw
                ELSE c.max_discount_lamports
       IN  r.err = "Ok" =>
              /\ r.discount = d
              /\ r.discount <= c.max_discount_lamports
              /\ r.fee = (d * c.service_fee_bps) \div 10000

\* A redeem succeeds with a capped discount and a positive fee, and another
\* with an uncapped discount.
C4_Witness ==
    /\ \E user \in Users, campaign \in DOMAIN campaigns, coupon \in CouponAddrs,
          purchase_amount \in Purchases :
          LET r == RedeemCouponIx(Cur, now, user, campaign, coupon,
                                  purchase_amount, 7, Treasury)
          IN  /\ r.err = "Ok"
              /\ (purchase_amount * campaigns[campaign].discount_bps) \div 10000
                     > campaigns[campaign].max_discount_lamports
              /\ r.discount = campaigns[campaign].max_discount_lamports
              /\ r.fee > 0
    /\ \E user \in Users, campaign \in DOMAIN campaigns, coupon \in CouponAddrs,
          purchase_amount \in Purchases :
          LET r == RedeemCouponIx(Cur, now, user, campaign, coupon,
                                  purchase_amount, 7, Treasury)
          IN  /\ r.err = "Ok"
              /\ r.discount < campaigns[campaign].max_discount_lamports

\* C5: a redeem succeeds only if now <= expiration_timestamp, the product
\* code matches, used_coupons < total_coupons, the coupon is neither used
\* nor listed and the caller owns it; when one of them fails on existing
\* accounts of one campaign the call is rejected with the error of the
\* first failing check (the owner is checked with the accounts).
C5_RedeemPreconditions ==
    \A user \in Users, campaign \in DOMAIN campaigns, coupon \in DOMAIN coupons,
       purchase_amount \in Purchases, product_code \in ProductCodes,
       platform_treasury \in Destinations :
       LET r == RedeemCouponIx(Cur, now, user, campaign, coupon,
                               purchase_amount, product_code, platform_treasury)
           c == campaigns[campaign]
           k == coupons[coupon]
           expected ==
              CASE k.owner # user -> "NotCouponOwner"
                [] ~(now <= c.expiration_timestamp) -> "CampaignExpired"
                [] product_code # c.product_code -> "InvalidProductForCoupon"
                [] ~(c.used_coupons < c.total_coupons) -> "NoCouponsLeft"
                [] k.used -> "CouponAlreadyUsed"
                [] k.listed -> "CouponListed"
                [] OTHER -> "none"
       IN  /\ r.err = "Ok" =>
                /\ now <= c.expiration_timestamp
                /\ product_code = c.product_code
                /\ c.used_coupons < c.total_coupons
                /\ ~k.used
                /\ ~k.listed
                /\ k.owner = user
           /\ (/\ VaultPda(campaign) \in DOMAIN vaults
               /\ k.campaign = campaign
               /\ expected # "none") => r.err = expected

\* In one state a redeem by the owner succeeds, and the same call with
\* another product code, and the same call by another user, are rejected.
C5_Witness ==
    \E user \in Users, other \in Users, campaign \in DOMAIN campaigns,
       coupon \in DOMAIN coupons :
       /\ RedeemCouponIx(Cur, now, user, campaign, coupon, 100000, 7,
                         Treasury).err = "Ok"
       /\ RedeemCouponIx(Cur, now, user, campaign, coupon, 100000, 8,
                         Treasury).err = "InvalidProductForCoupon"
       /\ RedeemCouponIx(Cur, now, other, campaign, coupon, 100000, 7,
                         Treasury).err = "NotCouponOwner"

\* After time has passed a redeem by the owner is rejected for expiry, and
\* a listed coupon cannot be redeemed.
C5_WitnessStateChecks ==
    \E user \in Users, campaign \in DOMAIN campaigns, coupon \in DOMAIN coupons :
       /\ coupons[coupon].owner = user
       /\ coupons[coupon].listed
       /\ now <= campaigns[campaign].expiration_timestamp
       /\ RedeemCouponIx(Cur, now, user, campaign, coupon, 100000, 7,
                         Treasury).err = "CouponListed"
       /\ RedeemCouponIx(Cur, now + 1, user, campaign, coupon, 100000, 7,
                         Treasury).err = "CampaignExpired"

\* C6: after a successful redeem, mint or buy, the identical call on the
\* resulting state is rejected and changes nothing: the coupon record is
\* gone for redeem (so no record is redeemed twice), the coupon address is
\* occupied for mint, the coupon is no longer listed for buy.
C6_ReplayRejected ==
    /\ \A user \in Users, campaign \in DOMAIN campaigns, coupon \in DOMAIN coupons,
          purchase_amount \in Purchases, product_code \in ProductCodes,
          platform_treasury \in Destinations :
          LET r == RedeemCouponIx(Cur, now, user, campaign, coupon,
                                  purchase_amount, product_code,
                                  platform_treasury)
              q == RedeemCouponIx(r.st, now, user, campaign, coupon,
                                  purchase_amount, product_code,
                                  platform_treasury)
          IN  r.err = "Ok" =>
                 /\ coupon \notin DOMAIN r.st.coupons
                 /\ q.err = "AccountNotInitialized"
                 /\ CommitOn(r.st, q) = r.st
    /\ \A merchant \in MintSigners, campaign \in DOMAIN campaigns,
          campaign_id \in CampaignIds, coupon_index \in CouponIndexes,
          recipient \in Users, platform_treasury \in Destinations :
          LET r == MintCouponIx(Cur, merchant, campaign, campaign_id,
                                coupon_index, recipient, platform_treasury)
              q == MintCouponIx(r.st, merchant, campaign, campaign_id,
                                coupon_index, recipient, platform_treasury)
          IN  r.err = "Ok" =>
                 /\ CouponPda(campaign, coupon_index) \in DOMAIN r.st.coupons
                 /\ q.err = "AlreadyInUse"
                 /\ CommitOn(r.st, q) = r.st
    /\ \A buyer \in Users, seller \in Users, campaign \in DOMAIN campaigns,
          coupon \in DOMAIN coupons :
          LET r == BuyListedCouponIx(Cur, buyer, seller, campaign, coupon)
              q == BuyListedCouponIx(r.st, buyer, seller, campaign, coupon)
          IN  r.err = "Ok" =>
                 /\ ~r.st.coupons[coupon].listed
                 /\ q.err = "CouponNotListed"
                 /\ CommitOn(r.st, q) = r.st

\* A mint can succeed in a campaign that has supply and funds for a second
\* mint as well, and a redeem and a buy have already taken place.
C6_Witness ==
    /\ \E campaign \in DOMAIN campaigns, recipient \in Users :
          LET c == campaigns[campaign]
          IN  /\ c.minted_coupons + 1 < c.total_coupons
              /\ VaultPda(campaign) \in DOMAIN vaults
              /\ lamports[VaultPda(campaign)] >= 2 * c.mint_cost_lamports
              /\ MintCouponIx(Cur, c.merchant, campaign, c.campaign_id, 0,
                              recipient, Treasury).err = "Ok"
    /\ \E campaign \in DOMAIN campaigns : campaigns[campaign].used_coupons > 0
    /\ lamports["u1"] # lamports["u2"]

\* C7: a successful redeem adds 1 to used_coupons, purchase_amount to
\* total_purchase_amount and the capped discount to total_discount_lamports,
\* sets last_redeem_timestamp to now, adds the fee to total_service_spent
\* while the vault balance falls and the treasury balance rises by that
\* fee, and destroys the coupon record; with service_fee_bps 200,
\* discount_bps 1000, max_discount 5000 and purchase_amount 100000 on a
\* fresh campaign the discount is 5000, the fee 100, total_service_spent
\* becomes 100 and used_coupons becomes 1.
C7_RedeemEffects ==
    \A user \in Users, campaign \in DOMAIN campaigns, coupon \in DOMAIN coupons,
       purchase_amount \in Purchases, product_code \in ProductCodes,
       platform_treasury \in Destinations :
       LET r == RedeemCouponIx(Cur, now, user, campaign, coupon,
                               purchase_amount, product_code, platform_treasury)
           vault == VaultPda(campaign)
           c == campaigns[campaign]
           c2 == r.st.campaigns[campaign]
       IN  r.err = "Ok" =>
              /\ c2.used_coupons = c.used_coupons + 1
              /\ c2.total_purchase_amount
                     = c.total_purchase_amount + purchase_amount
              /\ c2.total_discount_lamports
                     = c.total_discount_lamports + r.discount
              /\ c2.last_redeem_timestamp = now
              /\ r.st.vaults[vault].total_service_spent
                     = vaults[vault].total_service_spent + r.fee
              /\ r.st.lamports[vault] = lamports[vault] - r.fee
              /\ r.st.lamports[platform_treasury]
                     = lamports[platform_treasury] + r.fee
              /\ coupon \notin DOMAIN r.st.coupons
              /\ (/\ c.service_fee_bps = 200
                  /\ c.discount_bps = 1000
                  /\ c.max_discount_lamports = 5000
                  /\ purchase_amount = 100000
                  /\ c.used_coupons = 0
                  /\ vaults[vault].total_service_spent = 0)
                 => /\ r.discount = 5000
                    /\ r.fee = 100
                    /\ r.st.vaults[vault].total_service_spent = 100
                    /\ c2.used_coupons = 1

\* The redeem of the scenario: policy fee 200, campaign of 1000 bps capped
\* at 5000, purchase of 100000 on the first coupon.
C7_Witness ==
    \E user \in Users, campaign \in DOMAIN campaigns, coupon \in DOMAIN coupons :
       LET c == campaigns[campaign]
           r == RedeemCouponIx(Cur, now, user, campaign, coupon, 100000,
                               c.product_code, Treasury)
       IN  /\ c.service_fee_bps = 200
           /\ c.discount_bps = 1000
           /\ c.max_discount_lamports = 5000
           /\ c.used_coupons = 0
           /\ r.err = "Ok"
           /\ r.fee = 100
           /\ r.st.lamports[Treasury] = lamports[Treasury] + 100

\* The price range of a campaign: 0 < p <= min(max_discount,
\* floor(max_discount * resale_bps / 10000)).
PriceInRange(p, c) ==
    /\ 0 < p
    /\ p <= c.max_discount_lamports
    /\ p <= (c.max_discount_lamports * c.resale_bps) \div 10000

\* C8: every price accepted by list and every price paid in a successful
\* buy is within the range of the coupon's campaign; a list call of the
\* owner of an unlisted coupon with a price outside the range is rejected
\* with InvalidResalePrice (2600 for max_discount 5000 and resale_bps 5000),
\* and with resale_bps = 0 no list call succeeds.
C8_ResalePriceBounds ==
    /\ \A owner \in Users, campaign \in DOMAIN campaigns,
          coupon \in DOMAIN coupons, sale_price_lamports \in Prices :
          LET r == ListCouponForSaleIx(Cur, owner, campaign, coupon,
                                       sale_price_lamports)
              c == campaigns[campaign]
              k == coupons[coupon]
          IN  /\ r.err = "Ok" =>
                    /\ PriceInRange(sale_price_lamports, c)
                    /\ r.st.coupons[coupon].sale_price_lamports
                           = sale_price_lamports
              /\ (/\ k.campaign = campaign
                  /\ k.owner = owner
                  /\ ~k.used
                  /\ ~k.listed
                  /\ ~PriceInRange(sale_price_lamports, c))
                 => r.err = "InvalidResalePrice"
              /\ (/\ c.max_discount_lamports = 5000
                  /\ c.resale_bps = 5000
                  /\ sale_price_lamports = 2600) => r.err # "Ok"
              /\ c.resale_bps = 0 => r.err # "Ok"
    /\ \A buyer \in Users, seller \in Users, campaign \in DOMAIN campaigns,
          coupon \in DOMAIN coupons :
          LET r == BuyListedCouponIx(Cur, buyer, seller, campaign, coupon)
          IN  r.err = "Ok" =>
                 PriceInRange(coupons[coupon].sale_price_lamports,
                              campaigns[campaign])
    /\ \A coupon \in DOMAIN coupons :
          coupons[coupon].listed =>
             PriceInRange(coupons[coupon].sale_price_lamports,
                          campaigns[coupons[coupon].campaign])

\* The owner of a coupon of the scenario campaign is refused 2600 and 0 and
\* is granted 2500; the owner of a coupon of a campaign with resale_bps = 0
\* is refused; and a buy has already been paid.
C8_Witness ==
    /\ \E owner \in Users, campaign \in DOMAIN campaigns, coupon \in DOMAIN coupons :
          /\ campaigns[campaign].max_discount_lamports = 5000
          /\ campaigns[campaign].resale_bps = 5000
          /\ ListCouponForSaleIx(Cur, owner, campaign, coupon, 2600).err
                 = "InvalidResalePrice"
          /\ ListCouponForSaleIx(Cur, owner, campaign, coupon, 0).err
                 = "InvalidResalePrice"
          /\ ListCouponForSaleIx(Cur, owner, campaign, coupon, 2500).err = "Ok"
    /\ \E owner \in Users, campaign \in DOMAIN campaigns, coupon \in DOMAIN coupons :
          /\ campaigns[campaign].resale_bps = 0
          /\ ListCouponForSaleIx(Cur, owner, campaign, coupon, 2500).err
                 = "InvalidResalePrice"
    /\ lamports["u1"] # lamports["u2"]

C10_BuyEffects ==
    \A buyer \in Users, seller \in Users, campaign \in DOMAIN campaigns,
       coupon \in DOMAIN coupons :
       LET r == BuyListedCouponIx(Cur, buyer, seller, campaign, coupon)
           k == coupons[coupon]
           price == k.sale_price_lamports
       IN  r.err = "Ok" =>
              /\ seller = k.owner
              /\ buyer # seller
              /\ r.st.lamports[buyer] = lamports[buyer] - price
              /\ r.st.lamports[seller] = lamports[seller] + price
              /\ \A a \in LamportAccounts \ {buyer, seller} :
                    r.st.lamports[a] = lamports[a]
              /\ r.st.coupons =
                    [coupons EXCEPT ![coupon] =
                        [k EXCEPT !.owner = buyer, !.listed = FALSE,
                                  !.sale_price_lamports = 0]]
              /\ r.st.vaults = vaults
              /\ r.st.campaigns = campaigns
              /\ r.st.config = config

\* A listed coupon is bought at 2500 by a user who can pay.
C10_Witness ==
    \E buyer \in Users, seller \in Users, campaign \in DOMAIN campaigns,
       coupon \in DOMAIN coupons :
       LET r == BuyListedCouponIx(Cur, buyer, seller, campaign, coupon)
       IN  /\ coupons[coupon].sale_price_lamports = 2500
           /\ r.err = "Ok"
           /\ r.st.coupons[coupon].owner = buyer
           /\ r.st.lamports[seller] = lamports[seller] + 2500

\* C11: a buy of an existing coupon is rejected, with no balance and no
\* coupon changed, when the coupon does not reference the supplied campaign
\* (InvalidCouponCampaign), when it is not listed (CouponNotListed), when
\* the supplied seller is not its owner (NotCouponOwner) and when the buyer
\* is the seller (InvalidBuyer); of several failing checks the first in
\* this order names the error.
C11_BuyRejections ==
    \A buyer \in Users, seller \in Users, campaign \in DOMAIN campaigns,
       coupon \in DOMAIN coupons :
       LET r == BuyListedCouponIx(Cur, buyer, seller, campaign, coupon)
           k == coupons[coupon]
           expected ==
              CASE k.campaign # campaign -> "InvalidCouponCampaign"
                [] ~k.listed -> "CouponNotListed"
                [] k.owner # seller -> "NotCouponOwner"
                [] buyer = seller -> "InvalidBuyer"
                [] OTHER -> "none"
       IN  expected # "none" =>
              /\ r.err = expected
              /\ r.st.lamports = lamports
              /\ r.st.coupons = coupons
              /\ Commit(r) = Cur

\* A listed coupon whose owner tries to buy it, which a user tries to buy
\* from somebody who does not own it, and which is offered under the other
\* campaign; and an unlisted coupon that a user tries to buy from its owner.
C11_Witness ==
    /\ \E buyer \in Users, seller \in Users, campaign \in DOMAIN campaigns,
          other \in DOMAIN campaigns, coupon \in DOMAIN coupons :
          /\ coupons[coupon].listed
          /\ BuyListedCouponIx(Cur, seller, seller, campaign, coupon).err
                 = "InvalidBuyer"
          /\ BuyListedCouponIx(Cur, seller, buyer, campaign, coupon).err
                 = "NotCouponOwner"
          /\ BuyListedCouponIx(Cur, buyer, seller, other, coupon).err
                 = "InvalidCouponCampaign"
          /\ BuyListedCouponIx(Cur, buyer, seller, campaign, coupon).err = "Ok"
    /\ \E buyer \in Users, seller \in Users, campaign \in DOMAIN campaigns,
          coupon \in DOMAIN coupons :
          /\ coupons[coupon].owner = seller
          /\ buyer # seller
          /\ BuyListedCouponIx(Cur, buyer, seller, campaign, coupon).err
                 = "CouponNotListed"

\* C12: a create_campaign call for a (merchant, campaign_id) whose campaign
\* exists fails whatever its other arguments and leaves the campaign, its
\* vault and every balance as they are; every campaign record sits at the
\* address derived from its own (merchant, campaign_id) and every vault at
\* the address derived from its campaign, so there is at most one of each
\* per pair.
C12_CampaignCreatedOnce ==
    /\ \A merchant \in Merchants, campaign_id \in CampaignIds,
          a \in {ScenarioCampaign, TargetedCampaign} :
          LET r == CreateCampaignIx(Cur, merchant, campaign_id, a)
          IN  CampaignPda(merchant, campaign_id) \in DOMAIN campaigns =>
                 /\ r.err # "Ok"
                 /\ ConfigAccountErr(Cur) = "Ok" => r.err = "AlreadyInUse"
                 /\ r.st = Cur
                 /\ Commit(r) = Cur
    /\ \A c \in DOMAIN campaigns :
          CampaignPda(campaigns[c].merchant, campaigns[c].campaign_id) = c
    /\ \A v \in DOMAIN vaults :
          /\ vaults[v].campaign \in DOMAIN campaigns
          /\ VaultPda(vaults[v].campaign) = v
          /\ vaults[v].merchant = campaigns[vaults[v].campaign].merchant

\* A campaign that has issued a coupon and whose vault is closed: creating
\* it again, with either set of arguments, fails with AlreadyInUse.
C12_Witness ==
    \E merchant \in Merchants, campaign_id \in CampaignIds :
       LET c == CampaignPda(merchant, campaign_id)
       IN  /\ c \in DOMAIN campaigns
           /\ campaigns[c].minted_coupons > 0
           /\ VaultPda(c) \notin DOMAIN vaults
           /\ lamports[merchant] >= 1000
           /\ \A a \in {ScenarioCampaign, TargetedCampaign} :
                 CreateCampaignIx(Cur, merchant, campaign_id, a).err
                     = "AlreadyInUse"

\* C13: a mint succeeds only if the supplied campaign_id is the campaign's,
\* minted_coupons < total_coupons and the vault balance is at least
\* mint_cost (otherwise InsufficientVaultBalance, when the earlier checks
\* pass); a successful mint moves mint_cost from the vault to the account
\* given as treasury, adds mint_cost to total_mint_spent and 1 to
\* minted_coupons, and creates one coupon with owner = recipient, not used,
\* not listed, price 0.
C13_MintConditionsAndEffects ==
    \A merchant \in MintSigners, campaign \in DOMAIN campaigns,
       campaign_id \in CampaignIds, coupon_index \in CouponIndexes,
       recipient \in Users, platform_treasury \in Destinations :
       LET r == MintCouponIx(Cur, merchant, campaign, campaign_id,
                             coupon_index, recipient, platform_treasury)
           A == MintCouponAccounts(Cur, merchant, campaign, campaign_id,
                                   coupon_index)
           c == campaigns[campaign]
           vault == VaultPda(campaign)
           coupon == CouponPda(campaign, coupon_index)
           cost == c.mint_cost_lamports
       IN  /\ r.err = "Ok" =>
                /\ c.campaign_id = campaign_id
                /\ c.minted_coupons < c.total_coupons
                /\ lamports[vault] >= cost
                /\ r.st.lamports[vault] = lamports[vault] - cost
                /\ r.st.lamports[platform_treasury]
                       = lamports[platform_treasury] + cost
                /\ \A a \in LamportAccounts \ {vault, platform_treasury} :
                      r.st.lamports[a] = lamports[a]
                /\ r.st.vaults[vault].total_mint_spent
                       = vaults[vault].total_mint_spent + cost
                /\ r.st.campaigns[campaign].minted_coupons
                       = c.minted_coupons + 1
                /\ coupon \notin DOMAIN coupons
                /\ DOMAIN r.st.coupons = DOMAIN coupons \cup {coupon}
                /\ \A k \in DOMAIN coupons : r.st.coupons[k] = coupons[k]
                /\ r.st.coupons[coupon] =
                       [campaign |-> campaign, coupon_index |-> coupon_index,
                        owner |-> recipient, used |-> FALSE, listed |-> FALSE,
                        sale_price_lamports |-> 0]
           /\ (/\ A.err = "Ok"
               /\ c.minted_coupons < c.total_coupons
               /\ c.requires_wallet => recipient = c.target_wallet
               /\ lamports[vault] < cost)
              => r.err = "InsufficientVaultBalance"

\* A mint that succeeds and pays the treasury, in a state where the vault
\* of another campaign with coupons left cannot pay its mint cost.
C13_Witness ==
    /\ \E campaign \in DOMAIN campaigns, recipient \in Users :
          LET c == campaigns[campaign]
              r == MintCouponIx(Cur, c.merchant, campaign, c.campaign_id, 0,
                                recipient, Treasury)
          IN  /\ r.err = "Ok"
              /\ r.st.lamports[Treasury] = lamports[Treasury] + 100
    /\ \E campaign \in DOMAIN campaigns, recipient \in Users :
          LET c == campaigns[campaign]
          IN  /\ c.minted_coupons < c.total_coupons
              /\ MintCouponIx(Cur, c.merchant, campaign, c.campaign_id, 0,
                              recipient, Treasury).err
                     = "InsufficientVaultBalance"

\* C14: in a campaign with requires_wallet = true a mint whose recipient is
\* not target_wallet never succeeds, and fails with NotEligibleForCampaign
\* when its accounts validate and coupons are left, so a coupon of such a
\* campaign is owned by target_wallet when it is created; in a campaign
\* with requires_wallet = false the outcome of a mint does not depend on
\* the recipient.
C14_TargetedMint ==
    \A merchant \in MintSigners, campaign \in DOMAIN campaigns,
       campaign_id \in CampaignIds, coupon_index \in CouponIndexes,
       recipient \in Users, platform_treasury \in Destinations :
       LET r == MintCouponIx(Cur, merchant, campaign, campaign_id,
                             coupon_index, recipient, platform_treasury)
           A == MintCouponAccounts(Cur, merchant, campaign, campaign_id,
                                   coupon_index)
           c == campaigns[campaign]
           coupon == CouponPda(campaign, coupon_index)
       IN  /\ (c.requires_wallet /\ recipient # c.target_wallet) =>
                 /\ r.err # "Ok"
                 /\ (A.err = "Ok" /\ c.minted_coupons < c.total_coupons)
                    => r.err = "NotEligibleForCampaign"
           /\ (c.requires_wallet /\ r.err = "Ok") =>
                 r.st.coupons[coupon].owner = c.target_wallet
           /\ ~c.requires_wallet =>
                 \A other \in Users :
                    MintCouponIx(Cur, merchant, campaign, campaign_id,
                                 coupon_index, other, platform_treasury).err
                        = r.err

\* A targeted campaign whose merchant can mint to the target wallet and is
\* refused a mint to another wallet, and an open campaign whose merchant
\* can mint to either wallet.
C14_Witness ==
    /\ \E campaign \in DOMAIN campaigns, recipient \in Users :
          LET c == campaigns[campaign]
          IN  /\ c.requires_wallet
              /\ recipient # c.target_wallet
              /\ MintCouponIx(Cur, c.merchant, campaign, c.campaign_id, 0,
                              recipient, Treasury).err
                     = "NotEligibleForCampaign"
              /\ MintCouponIx(Cur, c.merchant, campaign, c.campaign_id, 0,
                              c.target_wallet, Treasury).err = "Ok"
    /\ \E campaign \in DOMAIN campaigns :
          LET c == campaigns[campaign]
          IN  /\ ~c.requires_wallet
              /\ \A recipient \in Users :
                    MintCouponIx(Cur, c.merchant, campaign, c.campaign_id, 0,
                                 recipient, Treasury).err = "Ok"

\* C15: a mint signed by anybody but the merchant of the campaign never
\* succeeds (ConstraintSeeds when the accounts exist and the coupon address
\* is free), so it creates no coupon of the campaign, leaves minted_coupons
\* as it is and moves nothing out of the vault.
C15_OnlyMerchantMints ==
    \A merchant \in MintSigners, campaign \in DOMAIN campaigns,
       campaign_id \in CampaignIds, coupon_index \in CouponIndexes,
       recipient \in Users, platform_treasury \in Destinations :
       LET r == MintCouponIx(Cur, merchant, campaign, campaign_id,
                             coupon_index, recipient, platform_treasury)
           T == Commit(r)
           vault == VaultPda(campaign)
           coupon == CouponPda(campaign, coupon_index)
       IN  merchant # campaigns[campaign].merchant =>
              /\ r.err # "Ok"
              /\ (vault \in DOMAIN vaults /\ coupon \notin DOMAIN coupons)
                 => r.err = "ConstraintSeeds"
              /\ T.coupons = coupons
              /\ T.campaigns[campaign].minted_coupons
                     = campaigns[campaign].minted_coupons
              /\ T.lamports[vault] = lamports[vault]
              /\ T.vaults = vaults

\* A campaign whose merchant can mint, and the same call signed by a user
\* is rejected with ConstraintSeeds.
C15_Witness ==
    \E campaign \in DOMAIN campaigns, merchant \in MintSigners,
       recipient \in Users :
       LET c == campaigns[campaign]
       IN  /\ merchant # c.merchant
           /\ MintCouponIx(Cur, c.merchant, campaign, c.campaign_id, 0,
                           recipient, Treasury).err = "Ok"
           /\ MintCouponIx(Cur, merchant, campaign, c.campaign_id, 0,
                           recipient, Treasury).err = "ConstraintSeeds"

\* C16: every coupon record sits at the address derived from its own
\* (campaign, coupon_index), so at most one exists per pair; a mint whose
\* coupon address is occupied fails (AlreadyInUse when campaign and vault
\* exist) before the handler runs: no mint cost is charged and
\* minted_coupons stays as it is.
C16_OneCouponPerIndex ==
    /\ \A k \in DOMAIN coupons :
          /\ CouponPda(coupons[k].campaign, coupons[k].coupon_index) = k
          /\ coupons[k].campaign \in DOMAIN campaigns
    /\ \A merchant \in MintSigners, campaign \in DOMAIN campaigns,
          campaign_id \in CampaignIds, coupon_index \in CouponIndexes,
          recipient \in Users, platform_treasury \in Destinations :
          LET r == MintCouponIx(Cur, merchant, campaign, campaign_id,
                                coupon_index, recipient, platform_treasury)
              vault == VaultPda(campaign)
          IN  CouponPda(campaign, coupon_index) \in DOMAIN coupons =>
                 /\ r.err # "Ok"
                 /\ vault \in DOMAIN vaults => r.err = "AlreadyInUse"
                 /\ r.st.lamports = lamports
                 /\ r.st.vaults = vaults
                 /\ r.st.campaigns = campaigns
                 /\ r.st.coupons = coupons

\* A campaign with coupons left and a vault that can pay, whose merchant is
\* refused a mint only because the coupon index is taken.
C16_Witness ==
    \E campaign \in DOMAIN campaigns, coupon_index \in CouponIndexes,
       recipient \in Users :
       LET c == campaigns[campaign]
           vault == VaultPda(campaign)
       IN  /\ c.minted_coupons < c.total_coupons
           /\ vault \in DOMAIN vaults
           /\ lamports[vault] >= c.mint_cost_lamports
           /\ eligible_recipient(c, recipient)
           /\ CouponPda(campaign, coupon_index) \in DOMAIN coupons
           /\ MintCouponIx(Cur, c.merchant, campaign, c.campaign_id,
                           coupon_index, recipient, Treasury).err
                  = "AlreadyInUse"

\* C17: close_campaign_vault on an existing campaign succeeds exactly when
\* the caller is the campaign's merchant, the vault exists and now >
\* expiration_timestamp; the merchant's call on an existing vault at now <=
\* expiration_timestamp is rejected with CampaignNotExpired, however many
\* coupons are outstanding; a successful call destroys the vault record,
\* credits the merchant with the whole balance of the vault and leaves the
\* campaign record and the coupons as they are.
C17_CloseVault ==
    \A merchant \in MintSigners, campaign \in DOMAIN campaigns :
       LET r == CloseCampaignVaultIx(Cur, now, merchant, campaign)
           c == campaigns[campaign]
           vault == VaultPda(campaign)
       IN  /\ r.err = "Ok" <=>
                 /\ merchant = c.merchant
                 /\ vault \in DOMAIN vaults
                 /\ now > c.expiration_timestamp
           /\ (/\ merchant = c.merchant
               /\ vault \in DOMAIN vaults
               /\ now <= c.expiration_timestamp)
              => r.err = "CampaignNotExpired" /\ r.st = Cur
           /\ r.err = "Ok" =>
                 /\ vault \notin DOMAIN r.st.vaults
                 /\ \A v \in DOMAIN vaults \ {vault} :
                       v \in DOMAIN r.st.vaults /\ r.st.vaults[v] = vaults[v]
                 /\ r.st.lamports[merchant]
                        = lamports[merchant] + lamports[vault]
                 /\ r.st.lamports[vault] = 0
                 /\ \A a \in LamportAccounts \ {merchant, vault} :
                       r.st.lamports[a] = lamports[a]
                 /\ r.st.campaigns = campaigns
                 /\ r.st.coupons = coupons
                 /\ r.st.config = config

\* After expiry the merchant can close a vault that holds funds while a
\* coupon of the campaign is outstanding, and a user cannot.
C17_Witness ==
    \E campaign \in DOMAIN campaigns, other \in MintSigners,
       coupon \in DOMAIN coupons :
       LET c == campaigns[campaign]
           r == CloseCampaignVaultIx(Cur, now, c.merchant, campaign)
       IN  /\ coupons[coupon].campaign = campaign
           /\ other # c.merchant
           /\ lamports[VaultPda(campaign)] > 0
           /\ r.err = "Ok"
           /\ r.st.lamports[c.merchant] > lamports[c.merchant]
           /\ CloseCampaignVaultIx(Cur, now, other, campaign).err # "Ok"

\* Before expiry the merchant is refused with CampaignNotExpired, with a
\* coupon outstanding.
C17_WitnessNotExpired ==
    \E campaign \in DOMAIN campaigns, coupon \in DOMAIN coupons :
       /\ coupons[coupon].campaign = campaign
       /\ CloseCampaignVaultIx(Cur, now, campaigns[campaign].merchant,
                               campaign).err = "CampaignNotExpired"

\* C18: expire_coupon destroys a coupon only when the caller is the
\* merchant of the coupon's campaign, now > expiration_timestamp and the
\* coupon is not listed; the merchant's call is rejected with
\* CampaignNotExpired while now <= expiration_timestamp and with
\* CouponListed when the campaign has expired and the coupon is listed;
\* a successful call removes that coupon record and changes no campaign
\* record, vault or balance.
C18_ExpireCoupon ==
    \A merchant \in MintSigners, campaign \in DOMAIN campaigns,
       coupon \in DOMAIN coupons :
       LET r == ExpireCouponIx(Cur, now, merchant, campaign, coupon)
           c == campaigns[campaign]
           k == coupons[coupon]
       IN  /\ r.err = "Ok" <=>
                 /\ merchant = c.merchant
                 /\ k.campaign = campaign
                 /\ now > c.expiration_timestamp
                 /\ ~k.listed
           /\ (/\ merchant = c.merchant
               /\ k.campaign = campaign
               /\ now <= c.expiration_timestamp)
              => r.err = "CampaignNotExpired"
           /\ (/\ merchant = c.merchant
               /\ k.campaign = campaign
               /\ now > c.expiration_timestamp
               /\ k.listed)
              => r.err = "CouponListed"
           /\ r.err # "Ok" => r.st = Cur
           /\ r.err = "Ok" =>
                 /\ r.st.coupons = Del(coupons, coupon)
                 /\ r.st.campaigns = campaigns
                 /\ r.st.vaults = vaults
                 /\ r.st.lamports = lamports

\* After expiry the merchant is refused the expiry of a listed coupon and
\* granted that of an unlisted one.
C18_Witness ==
    \E campaign \in DOMAIN campaigns, other \in DOMAIN campaigns,
       listed \in DOMAIN coupons, unlisted \in DOMAIN coupons :
       /\ ExpireCouponIx(Cur, now, campaigns[campaign].merchant, campaign,
                         listed).err = "CouponListed"
       /\ ExpireCouponIx(Cur, now, campaigns[other].merchant, other,
                         unlisted).err = "Ok"

\* Before expiry the merchant is refused with CampaignNotExpired.
C18_WitnessNotExpired ==
    \E campaign \in DOMAIN campaigns, coupon \in DOMAIN coupons :
       ExpireCouponIx(Cur, now, campaigns[campaign].merchant, campaign,
                      coupon).err = "CampaignNotExpired"

\* C19: transfer(new_owner) succeeds exactly when the caller is the
\* coupon's current owner; a non-owner's call is rejected with
\* NotCouponOwner and changes nothing; on success, whether the coupon was
\* listed or not and whether its campaign has expired or not, the coupon
\* has owner = new_owner, listed = false and sale_price = 0, its other
\* fields are as before, and nothing else changes.
C19_Transfer ==
    \A current_owner \in Users \cup Merchants, coupon \in DOMAIN coupons,
       new_owner \in Users \cup Merchants :
       LET r == TransferCouponIx(Cur, current_owner, coupon, new_owner)
           k == coupons[coupon]
       IN  /\ r.err = "Ok" <=> k.owner = current_owner
           /\ k.owner # current_owner =>
                 /\ r.err = "NotCouponOwner"
                 /\ r.st = Cur
           /\ r.err = "Ok" =>
                 /\ r.st.coupons[coupon].owner = new_owner
                 /\ r.st.coupons[coupon].listed = FALSE
                 /\ r.st.coupons[coupon].sale_price_lamports = 0
                 /\ r.st.coupons =
                        [coupons EXCEPT ![coupon] =
                            [k EXCEPT !.owner = new_owner, !.listed = FALSE,
                                      !.sale_price_lamports = 0]]
                 /\ r.st.campaigns = campaigns
                 /\ r.st.vaults = vaults
                 /\ r.st.lamports = lamports
                 /\ r.st.config = config

\* The owner of a coupon that is listed at a positive price, in a campaign
\* that has expired, transfers it to somebody else, while another caller is
\* refused.
C19_Witness ==
    \E coupon \in DOMAIN coupons, new_owner \in Users, other \in Users :
       LET k == coupons[coupon]
           r == TransferCouponIx(Cur, k.owner, coupon, new_owner)
       IN  /\ k.listed
           /\ k.sale_price_lamports > 0
           /\ now > campaigns[k.campaign].expiration_timestamp
           /\ new_owner # k.owner
           /\ r.err = "Ok"
           /\ r.st.coupons[coupon].owner = new_owner
           /\ ~r.st.coupons[coupon].listed
           /\ TransferCouponIx(Cur, other, coupon, new_owner).err
                  = "NotCouponOwner"

\* An unlisted coupon of a campaign that has not expired is transferred.
C19_WitnessUnlisted ==
    \E coupon \in DOMAIN coupons, new_owner \in Users :
       LET k == coupons[coupon]
       IN  /\ ~k.listed
           /\ now <= campaigns[k.campaign].expiration_timestamp
           /\ new_owner # k.owner
           /\ TransferCouponIx(Cur, k.owner, coupon, new_owner).err = "Ok"

\* C20: list succeeds only when the caller is the coupon's owner and the
\* coupon is neither used nor already listed; the owner's call on an
\* unused coupon that is already listed is rejected with
\* CouponAlreadyListed, whatever the price offered, and leaves the stored
\* sale_price unchanged; on success the coupon has listed = true and
\* sale_price = price, its owner and other fields are as before, and
\* nothing else changes.
C20_ListCoupon ==
    \A owner \in Users \cup Merchants, campaign \in DOMAIN campaigns,
       coupon \in DOMAIN coupons, sale_price_lamports \in Prices :
       LET r == ListCouponForSaleIx(Cur, owner, campaign, coupon,
                                    sale_price_lamports)
           k == coupons[coupon]
       IN  /\ r.err = "Ok" =>
                 /\ k.owner = owner
                 /\ ~k.used
                 /\ ~k.listed
           /\ (/\ k.campaign = campaign
               /\ k.owner = owner
               /\ ~k.used
               /\ k.listed)
              => /\ r.err = "CouponAlreadyListed"
                 /\ r.st = Cur
                 /\ Commit(r).coupons[coupon].sale_price_lamports
                        = k.sale_price_lamports
           /\ r.err = "Ok" =>
                 /\ r.st.coupons[coupon].listed = TRUE
                 /\ r.st.coupons[coupon].sale_price_lamports
                        = sale_price_lamports
                 /\ r.st.coupons[coupon].owner = k.owner
                 /\ r.st.coupons =
                        [coupons EXCEPT ![coupon] =
                            [k EXCEPT !.listed = TRUE,
                                      !.sale_price_lamports =
                                          sale_price_lamports]]
                 /\ r.st.campaigns = campaigns
                 /\ r.st.vaults = vaults
                 /\ r.st.lamports = lamports
                 /\ r.st.config = config

\* The owner of a listed coupon offers a price the campaign allows and a
\* price different from the stored one, and is refused both times with the
\* stored price kept.
C20_Witness ==
    \E campaign \in DOMAIN campaigns, coupon \in DOMAIN coupons,
       allowed \in Prices, refused \in Prices :
       LET k == coupons[coupon]
           c == campaigns[campaign]
           r == ListCouponForSaleIx(Cur, k.owner, campaign, coupon, refused)
       IN  /\ k.listed
           /\ k.sale_price_lamports > 0
           /\ allowed > 0
           /\ allowed <= list_max_allowed(c)
           /\ refused # k.sale_price_lamports
           /\ ListCouponForSaleIx(Cur, k.owner, campaign, coupon,
                                  allowed).err = "CouponAlreadyListed"
           /\ r.err = "CouponAlreadyListed"
           /\ r.st.coupons[coupon].sale_price_lamports = k.sale_price_lamports

\* The owner lists an unlisted coupon at an allowed price.
C20_WitnessListed ==
    \E campaign \in DOMAIN campaigns, coupon \in DOMAIN coupons,
       sale_price_lamports \in Prices :
       LET k == coupons[coupon]
           r == ListCouponForSaleIx(Cur, k.owner, campaign, coupon,
                                    sale_price_lamports)
       IN  /\ ~k.listed
           /\ r.err = "Ok"
           /\ r.st.coupons[coupon].listed
           /\ r.st.coupons[coupon].sale_price_lamports = sale_price_lamports

\* The policy of the ledger S replaced by another service fee.
WithPolicyFee(S, service_fee_bps) ==
    [S EXCEPT !.config.service_fee_bps = service_fee_bps]

C21_SnapshotAtCreation ==
    \A merchant \in Merchants, call \in CreateCalls :
       LET r == CreateCampaignIx(Cur, merchant, call[1], call[2])
       IN  r.err = "Ok" =>
              r.st.campaigns[CampaignPda(merchant, call[1])].service_fee_bps
                  = config.service_fee_bps

C21_RedeemUsesSnapshot ==
    \A user \in Users, campaign \in DOMAIN campaigns, coupon \in CouponAddrs,
       purchase_amount \in Purchases, platform_treasury \in Destinations,
       policy_fee \in {0, MaxBps} :
       LET r == RedeemCouponIx(Cur, now, user, campaign, coupon,
                               purchase_amount, 7, platform_treasury)
           q == RedeemCouponIx(WithPolicyFee(Cur, policy_fee), now, user,
                               campaign, coupon, purchase_amount, 7,
                               platform_treasury)
           c == campaigns[campaign]
       IN  /\ q.err = r.err
           /\ r.err = "Ok" =>
                 /\ r.fee = (r.discount * c.service_fee_bps) \div BpsDenominator
                 /\ q.fee = r.fee

C21_SnapshotKept ==
    \A campaign \in DOMAIN campaigns :
       /\ campaign \in DOMAIN campaigns'
       /\ campaigns'[campaign].service_fee_bps
              = campaigns[campaign].service_fee_bps

\* C21: a campaign's service_fee_bps is the policy's service_fee_bps at
\* the moment of creation, no step changes it afterwards, and a redeem
\* computes its fee with the campaign's value whatever the policy's
\* service_fee_bps is at that moment.
C21_ServiceFeeSnapshot ==
    /\ [](C21_SnapshotAtCreation /\ C21_RedeemUsesSnapshot)
    /\ [][C21_SnapshotKept]_vars

\* A campaign created under a positive policy fee is redeemed with a
\* positive fee, the same under a policy whose fee is zero.
C21_Witness ==
    \E user \in Users, campaign \in DOMAIN campaigns, coupon \in DOMAIN coupons,
       purchase_amount \in Purchases :
       LET r == RedeemCouponIx(Cur, now, user, campaign, coupon,
                               purchase_amount, 7, Treasury)
           q == RedeemCouponIx(WithPolicyFee(Cur, 0), now, user, campaign,
                               coupon, purchase_amount, 7, Treasury)
       IN  /\ campaigns[campaign].service_fee_bps > 0
           /\ r.err = "Ok"
           /\ r.fee > 0
           /\ q.err = "Ok"
           /\ q.fee = r.fee

LongestName == "promo-campaign-name-promo-campaign-name-promo-campaign-name-prom"
OverlongName == "promo-campaign-name-promo-campaign-name-promo-campaign-name-promx"

\* Arguments with exactly one field made invalid, and the error of its check.
InvalidCreateArgs(a) ==
    {<<[a EXCEPT !.discount_bps = MaxBps + 1], "InvalidBps">>,
     <<[a EXCEPT !.resale_bps = MaxBps + 1], "InvalidBps">>,
     <<[a EXCEPT !.total_coupons = 0], "InvalidTotalCoupons">>,
     <<[a EXCEPT !.mint_cost_lamports = 0], "InvalidMintCost">>,
     <<[a EXCEPT !.max_discount_lamports = 0], "InvalidMaxDiscount">>,
     <<[a EXCEPT !.deposit_amount = 0], "InvalidDepositAmount">>,
     <<[a EXCEPT !.requires_wallet = TRUE, !.target_wallet = DefaultPubkey],
       "TargetWalletRequired">>,
     <<[a EXCEPT !.campaign_name = OverlongName], "NameTooLong">>}

\* C23: create_campaign rejects every call with a bps argument above
\* 10000, with total_coupons, mint_cost, max_discount or deposit_amount
\* equal to 0, with requires_wallet and a zero target_wallet, or with a
\* name longer than 64 bytes; the rejected call leaves no record and moves
\* no funds, and names the failed check when the accounts are accepted.
\* Every stored campaign has discount_bps, service_fee_bps and resale_bps
\* <= 10000, total_coupons, mint_cost and max_discount > 0, and
\* target_wallet zero if and only if requires_wallet is false.
C23_CreateValidation ==
    /\ \A merchant \in Merchants, call \in CreateCalls :
          \A bad \in InvalidCreateArgs(call[2]) :
             LET r == CreateCampaignIx(Cur, merchant, call[1], bad[1])
             IN  /\ r.err # "Ok"
                 /\ Commit(r) = Cur
                 /\ CreateCampaignAccounts(Cur, merchant, call[1]).err = "Ok"
                    => r.err = bad[2]
    /\ \A campaign \in DOMAIN campaigns :
          LET c == campaigns[campaign]
          IN  /\ c.discount_bps <= MaxBps
              /\ c.service_fee_bps <= MaxBps
              /\ c.resale_bps <= MaxBps
              /\ c.total_coupons > 0
              /\ c.mint_cost_lamports > 0
              /\ c.max_discount_lamports > 0
              /\ c.target_wallet = DefaultPubkey <=> ~c.requires_wallet

\* With the policy in place and the address free, a call is accepted, also
\* with a name of 64 bytes and a discount of 10000 bps, and each of its
\* invalid variants is refused with the error of its check; a targeted and
\* an open campaign are stored.
C23_Witness ==
    /\ \E merchant \in Merchants, call \in CreateCalls :
          /\ CreateCampaignIx(Cur, merchant, call[1], call[2]).err = "Ok"
          /\ CreateCampaignIx(Cur, merchant, call[1],
                 [call[2] EXCEPT !.campaign_name = LongestName,
                                 !.discount_bps = MaxBps]).err = "Ok"
          /\ \A bad \in InvalidCreateArgs(call[2]) :
                CreateCampaignIx(Cur, merchant, call[1], bad[1]).err = bad[2]
    /\ \E campaign \in DOMAIN campaigns :
          /\ campaigns[campaign].requires_wallet
          /\ campaigns[campaign].target_wallet # DefaultPubkey

InitializeBps == {0, 5000, MaxBps, MaxBps + 1}

C24_InitializeOnce ==
    \A admin \in {Admin, "u1"}, max_resale_bps \in InitializeBps,
       service_fee_bps \in InitializeBps :
       LET r == InitializeConfigIx(Cur, admin, max_resale_bps, service_fee_bps)
       IN  /\ config.len # 0 => r.err = "AlreadyInUse" /\ Commit(r) = Cur
           /\ (config.len = 0
               /\ (max_resale_bps > MaxBps \/ service_fee_bps > MaxBps))
              => r.err = "InvalidBps" /\ Commit(r) = Cur
           /\ (config.len = 0 /\ max_resale_bps <= MaxBps
               /\ service_fee_bps <= MaxBps)
              => /\ r.err = "Ok"
                 /\ r.st.config =
                        [len |-> CurrentConfigLen, admin |-> admin,
                         max_resale_bps |-> max_resale_bps,
                         service_fee_bps |-> service_fee_bps]

C24_BpsBounded ==
    config.len # 0 =>
        /\ config.max_resale_bps <= MaxBps
        /\ config.service_fee_bps <= MaxBps

C24_NeverDestroyed == config.len # 0 => config'.len # 0

\* C24: initialize_config fails (AlreadyInUse) whenever the policy record
\* exists, fails with InvalidBps when the record does not exist and either
\* bps argument exceeds 10000, and otherwise creates the record with its
\* arguments; no step removes an existing policy record; and in every
\* reachable state the record's max_resale_bps and service_fee_bps are
\* both <= 10000.
C24_PolicyStoreSingleton ==
    /\ [](C24_InitializeOnce /\ C24_BpsBounded)
    /\ [][C24_NeverDestroyed]_vars

\* The policy record created by initialize_config is there with campaigns
\* depending on it, and a second initialize_config is refused.
C24_Witness ==
    /\ config.len = CurrentConfigLen
    /\ config.admin = Admin
    /\ DOMAIN campaigns # {}
    /\ InitializeConfigIx(Cur, "u1", 0, 0).err = "AlreadyInUse"
    /\ InitializeConfigIx(Cur, Admin, 5000, 200).err = "AlreadyInUse"

\* Before the record exists an argument of 10001 is refused with InvalidBps.
C24_WitnessInvalidBps ==
    /\ config.len = 0
    /\ InitializeConfigIx(Cur, Admin, MaxBps + 1, 200).err = "InvalidBps"
    /\ InitializeConfigIx(Cur, Admin, 5000, MaxBps + 1).err = "InvalidBps"
    /\ InitializeConfigIx(Cur, Admin, MaxBps, MaxBps).err = "Ok"

C25_NotAdminRejected ==
    \A caller \in Signers, max_resale_bps \in InitializeBps,
       service_fee_bps \in InitializeBps :
       LET r == upgrade_config(Cur, caller, max_resale_bps, service_fee_bps)
       IN  /\ (config.len # 0 /\ caller # config.admin) =>
                 /\ r.err # "Ok"
                 /\ Commit(r) = Cur
                 /\ (max_resale_bps <= MaxBps /\ service_fee_bps <= MaxBps)
                    => r.err = "NotAdmin"
           /\ r.err = "Ok" => r.st.config.admin = config.admin

C25_BoundsChangeByAdminUpgrade ==
    (/\ config.len # 0
     /\ \/ config'.max_resale_bps # config.max_resale_bps
        \/ config'.service_fee_bps # config.service_fee_bps)
    => \E max_resale_bps \in InitializeBps, service_fee_bps \in InitializeBps :
          LET r == upgrade_config(Cur, config.admin, max_resale_bps,
                                  service_fee_bps)
          IN  r.err = "Ok" /\ config' = r.st.config

C25_AdminKept == config.len # 0 => config'.admin = config.admin

C26_UpgradeRewritesRecord ==
    \A max_resale_bps \in {0, 2500, MaxBps}, service_fee_bps \in {0, 200, MaxBps} :
       config.len \in {LegacyConfigLen, CurrentConfigLen} =>
          LET r == upgrade_config(Cur, config.admin, max_resale_bps,
                                  service_fee_bps)
          IN  /\ r.err = "Ok"
              /\ r.st.config =
                     [len |-> CurrentConfigLen, admin |-> config.admin,
                      max_resale_bps |-> max_resale_bps,
                      service_fee_bps |-> service_fee_bps]

\* The same for a record of the current layout only.
C26_CurrentLayoutUpgradeSucceeds ==
    config.len = CurrentConfigLen =>
        upgrade_config(Cur, config.admin, 2500, 0).err = "Ok"

\* The exact product a * b, respectively sum a + b, exceeds the largest
\* value of the type (the product is compared by division).
ProductExceeds(a, b, max) == b # 0 /\ a > max \div b
SumExceeds(a, b, max) == a + b > max

\* The ledger with the treasury's balance replaced.
WithTreasuryBalance(S, balance) == [S EXCEPT !.lamports[Treasury] = balance]

C27_RedeemOverflow ==
    \A user \in Users, campaign \in DOMAIN campaigns, coupon \in DOMAIN coupons,
       purchase_amount \in Purchases, platform_treasury \in Destinations,
       balance \in {lamports[Treasury], MaxU64} :
       LET S == WithTreasuryBalance(Cur, balance)
           r == RedeemCouponIx(S, now, user, campaign, coupon,
                               purchase_amount, 7, platform_treasury)
           c == campaigns[campaign]
           k == coupons[coupon]
           vault == VaultPda(campaign)
           pre == /\ vault \in DOMAIN vaults
                  /\ k.campaign = campaign
                  /\ k.owner = user
                  /\ now <= c.expiration_timestamp
                  /\ c.product_code = 7
                  /\ c.used_coupons < c.total_coupons
                  /\ ~k.used
                  /\ ~k.listed
           raw_over == ProductExceeds(purchase_amount, c.discount_bps, MaxU64)
           raw == (purchase_amount * c.discount_bps) \div BpsDenominator
           d == IF raw > c.max_discount_lamports THEN c.max_discount_lamports
                ELSE raw
           mul_over == raw_over \/ ProductExceeds(d, c.service_fee_bps, MaxU64)
           fee == (d * c.service_fee_bps) \div BpsDenominator
           add_over ==
              \/ fee > 0 /\ SumExceeds(S.lamports[platform_treasury], fee, MaxU64)
              \/ fee > 0 /\ SumExceeds(vaults[vault].total_service_spent, fee,
                                       MaxU64)
              \/ SumExceeds(c.used_coupons, 1, MaxU32)
              \/ SumExceeds(c.total_purchase_amount, purchase_amount, MaxU64)
              \/ SumExceeds(c.total_discount_lamports, d, MaxU64)
       IN  /\ r.err = "Ok" => ~mul_over /\ ~add_over
           /\ (pre /\ mul_over) => r.err = "Overflow"
           /\ (pre /\ ~mul_over /\ (fee = 0 \/ S.lamports[vault] >= fee)
               /\ add_over) => r.err = "Overflow"
           /\ r.err = "Overflow" => CommitOn(S, r) = S
           /\ (pre /\ raw_over) =>
                 RedeemCouponIx(Cur, now, user, campaign, coupon,
                                purchase_amount, 7, platform_treasury).err
                     = "Overflow"

C27_ListAndBuyOverflow ==
    /\ \A owner \in Users, campaign \in DOMAIN campaigns,
          coupon \in DOMAIN coupons, sale_price_lamports \in Prices :
          LET r == ListCouponForSaleIx(Cur, owner, campaign, coupon,
                                       sale_price_lamports)
              c == campaigns[campaign]
              k == coupons[coupon]
              over == ProductExceeds(c.max_discount_lamports, c.resale_bps,
                                     MaxU64)
          IN  /\ r.err = "Ok" => ~over
              /\ (/\ k.campaign = campaign
                  /\ k.owner = owner
                  /\ ~k.used
                  /\ ~k.listed
                  /\ sale_price_lamports > 0
                  /\ sale_price_lamports <= c.max_discount_lamports
                  /\ over)
                 => r.err = "Overflow" /\ Commit(r) = Cur
    /\ \A buyer \in Users, seller \in Users, campaign \in DOMAIN campaigns,
          coupon \in DOMAIN coupons :
          LET r == BuyListedCouponIx(Cur, buyer, seller, campaign, coupon)
              c == campaigns[campaign]
          IN  r.err = "Ok" =>
                 ~ProductExceeds(c.max_discount_lamports, c.resale_bps, MaxU64)

C27_MintOverflow ==
    \A merchant \in Merchants, campaign \in DOMAIN campaigns,
       recipient \in Users, balance \in {lamports[Treasury], MaxU64} :
       LET S == WithTreasuryBalance(Cur, balance)
           c == campaigns[campaign]
           vault == VaultPda(campaign)
           cost == c.mint_cost_lamports
           r == MintCouponIx(S, merchant, campaign, c.campaign_id, 0,
                             recipient, Treasury)
           over == \/ SumExceeds(S.lamports[Treasury], cost, MaxU64)
                   \/ SumExceeds(vaults[vault].total_mint_spent, cost, MaxU64)
                   \/ SumExceeds(c.minted_coupons, 1, MaxU32)
       IN  /\ r.err = "Ok" => ~over
           /\ (/\ MintCouponAccounts(S, merchant, campaign, c.campaign_id, 0).err
                     = "Ok"
               /\ c.minted_coupons < c.total_coupons
               /\ eligible_recipient(c, recipient)
               /\ lamports[vault] >= cost
               /\ over)
              => r.err = "Overflow" /\ CommitOn(S, r) = S

C27_StoredValuesInRange ==
    /\ \A a \in LamportAccounts : lamports[a] \in 0..MaxU64
    /\ \A campaign \in DOMAIN campaigns :
          /\ campaigns[campaign].used_coupons \in 0..MaxU32
          /\ campaigns[campaign].minted_coupons \in 0..MaxU32
          /\ campaigns[campaign].total_purchase_amount \in 0..MaxU64
          /\ campaigns[campaign].total_discount_lamports \in 0..MaxU64
    /\ \A vault \in DOMAIN vaults :
          /\ vaults[vault].total_mint_spent \in 0..MaxU64
          /\ vaults[vault].total_service_spent \in 0..MaxU64
    /\ \A coupon \in DOMAIN coupons :
          coupons[coupon].sale_price_lamports \in 0..MaxU64

\* C27: with w-bit amounts and counters, a redeem, list, buy or mint
\* succeeds only if every product and sum it computes fits the type; when
\* a product or sum does not fit and the call gets as far as computing it,
\* the call fails with Overflow and changes nothing (a redeem whose
\* purchase_amount * discount_bps does not fit fails even though the
\* capped discount would); every stored amount and counter is within its
\* type.
C27_OverflowRejected ==
    /\ C27_RedeemOverflow
    /\ C27_ListAndBuyOverflow
    /\ C27_MintOverflow
    /\ C27_StoredValuesInRange

\* The owner's redeem with the largest purchase amount overflows the
\* discount product although the discount cap fits, and the owner's
\* listing in a campaign whose cap times resale_bps does not fit overflows.
C27_Witness ==
    /\ \E user \in Users, campaign \in DOMAIN campaigns,
          coupon \in DOMAIN coupons :
          /\ campaigns[campaign].max_discount_lamports <= MaxU64
          /\ ProductExceeds(MaxU64, campaigns[campaign].discount_bps, MaxU64)
          /\ RedeemCouponIx(Cur, now, user, campaign, coupon, 100000, 7,
                            Treasury).err = "Ok"
          /\ RedeemCouponIx(Cur, now, user, campaign, coupon, MaxU64, 7,
                            Treasury).err = "Overflow"
    /\ \E owner \in Users, campaign \in DOMAIN campaigns,
          coupon \in DOMAIN coupons :
          ListCouponForSaleIx(Cur, owner, campaign, coupon, 2500).err
              = "Overflow"

\* A redeem whose purchase amount does not fit the campaign's running
\* total fails with Overflow.
C27_WitnessSums ==
    \E user \in Users, campaign \in DOMAIN campaigns,
          coupon \in DOMAIN coupons, purchase_amount \in Purchases :
          /\ ~ProductExceeds(purchase_amount, campaigns[campaign].discount_bps,
                             MaxU64)
          /\ SumExceeds(campaigns[campaign].total_purchase_amount,
                        purchase_amount, MaxU64)
          /\ RedeemCouponIx(Cur, now, user, campaign, coupon, purchase_amount,
                            7, Treasury).err = "Overflow"

\* A mint that succeeds fails with Overflow when the treasury's balance is
\* at the top of the range.
C27_WitnessTreasury ==
    \E merchant \in Merchants, campaign \in DOMAIN campaigns,
          recipient \in Users :
          /\ MintCouponIx(Cur, merchant, campaign,
                          campaigns[campaign].campaign_id, 0, recipient,
                          Treasury).err = "Ok"
          /\ MintCouponIx(WithTreasuryBalance(Cur, MaxU64), merchant, campaign,
                          campaigns[campaign].campaign_id, 0, recipient,
                          Treasury).err = "Overflow"

\* C28: in every reachable state every existing coupon has
\* sale_price_lamports = 0 when it is not listed and
\* sale_price_lamports > 0 when it is listed.
C28_SalePriceMatchesListing ==
    \A coupon \in DOMAIN coupons :
       /\ ~coupons[coupon].listed => coupons[coupon].sale_price_lamports = 0
       /\ coupons[coupon].listed => coupons[coupon].sale_price_lamports > 0

\* A listed coupon with its price and an unlisted coupon exist together,
\* and the listed one comes out of a buy and of a transfer unlisted at
\* price 0.
C28_Witness ==
    \E listed \in DOMAIN coupons, unlisted \in DOMAIN coupons,
       buyer \in Users, new_owner \in Users :
       LET k == coupons[listed]
           b == BuyListedCouponIx(Cur, buyer, k.owner, k.campaign, listed)
           t == TransferCouponIx(Cur, k.owner, listed, new_owner)
       IN  /\ k.listed
           /\ k.sale_price_lamports > 0
           /\ ~coupons[unlisted].listed
           /\ b.err = "Ok"
           /\ ~b.st.coupons[listed].listed
           /\ b.st.coupons[listed].sale_price_lamports = 0
           /\ t.err = "Ok"
           /\ t.st.coupons[listed].sale_price_lamports = 0

\* The ledger after the step.
Nxt ==
    [config |-> config', campaigns |-> campaigns', vaults |-> vaults',
     coupons |-> coupons', lamports |-> lamports']

\* The step is a successful mint_coupon, respectively redeem_coupon, on the
\* campaign.
IsMintOf(campaign) ==
    \E merchant \in MintSigners, campaign_id \in CampaignIds,
       coupon_index \in CouponIndexes, recipient \in Users,
       platform_treasury \in Destinations :
       LET r == MintCouponIx(Cur, merchant, campaign, campaign_id,
                             coupon_index, recipient, platform_treasury)
       IN  r.err = "Ok" /\ Nxt = r.st

IsRedeemOf(campaign) ==
    \E user \in Users, coupon \in CouponAddrs, purchase_amount \in Purchases,
       product_code \in ProductCodes, platform_treasury \in Destinations :
       LET r == RedeemCouponIx(Cur, now, user, campaign, coupon,
                               purchase_amount, product_code, platform_treasury)
       IN  r.err = "Ok" /\ Nxt = r.st

C29_CampaignStep ==
    \A campaign \in DOMAIN campaigns :
       /\ campaign \in DOMAIN campaigns'
       /\ LET c == campaigns[campaign]
              n == campaigns'[campaign]
          IN  /\ n.merchant = c.merchant
              /\ n.campaign_id = c.campaign_id
              /\ n.discount_bps = c.discount_bps
              /\ n.service_fee_bps = c.service_fee_bps
              /\ n.resale_bps = c.resale_bps
              /\ n.expiration_timestamp = c.expiration_timestamp
              /\ n.total_coupons = c.total_coupons
              /\ n.mint_cost_lamports = c.mint_cost_lamports
              /\ n.max_discount_lamports = c.max_discount_lamports
              /\ n.category_code = c.category_code
              /\ n.product_code = c.product_code
              /\ n.campaign_name = c.campaign_name
              /\ n.requires_wallet = c.requires_wallet
              /\ n.target_wallet = c.target_wallet
              /\ n.minted_coupons # c.minted_coupons => IsMintOf(campaign)
              /\ (\/ n.used_coupons # c.used_coupons
                  \/ n.total_purchase_amount # c.total_purchase_amount
                  \/ n.total_discount_lamports # c.total_discount_lamports
                  \/ n.last_redeem_timestamp # c.last_redeem_timestamp)
                 => IsRedeemOf(campaign)

\* C29: a campaign record that exists exists after every step, with its
\* merchant, campaign_id, discount_bps, service_fee_bps, resale_bps,
\* expiration_timestamp, total_coupons, mint_cost, max_discount,
\* category_code, product_code, name, requires_wallet and target_wallet
\* unchanged; a step that changes its minted_coupons is a successful mint
\* of that campaign, and a step that changes its used_coupons or an
\* analytics field is a successful redeem of that campaign.
C29_CampaignFrame == [][C29_CampaignStep]_vars

\* The scenario campaign is still there with the arguments of its creation
\* after a mint, a redeem and the closing of its vault.
C29_Witness ==
    \E campaign \in DOMAIN campaigns :
       LET c == campaigns[campaign]
       IN  /\ VaultPda(campaign) \notin DOMAIN vaults
           /\ c.minted_coupons = 1
           /\ c.used_coupons = 1
           /\ c.total_purchase_amount > 0
           /\ c.total_discount_lamports > 0
           /\ c.last_redeem_timestamp > 0
           /\ c.discount_bps = ScenarioCampaign.discount_bps
           /\ c.total_coupons = ScenarioCampaign.total_coupons
           /\ c.max_discount_lamports = ScenarioCampaign.max_discount_lamports
           /\ c.expiration_timestamp = ScenarioCampaign.expiration_timestamp
           /\ c.campaign_name = ScenarioCampaign.campaign_name

\* C30: while now <= expiration_timestamp no mint or redeem of a campaign
\* credits the campaign's merchant with funds of the vault, whatever
\* account is passed as platform treasury.
C30_NoPayoutToMerchantBeforeExpiry ==
    /\ \A merchant \in Merchants, campaign \in DOMAIN campaigns,
          recipient \in Users, platform_treasury \in LamportAccounts :
          LET c == campaigns[campaign]
              r == MintCouponIx(Cur, merchant, campaign, c.campaign_id, 0,
                                recipient, platform_treasury)
          IN  (r.err = "Ok" /\ now <= c.expiration_timestamp) =>
                 r.st.lamports[c.merchant] <= lamports[c.merchant]
    /\ \A user \in Users, campaign \in DOMAIN campaigns,
          coupon \in DOMAIN coupons, purchase_amount \in Purchases,
          platform_treasury \in LamportAccounts :
          LET c == campaigns[campaign]
              r == RedeemCouponIx(Cur, now, user, campaign, coupon,
                                  purchase_amount, 7, platform_treasury)
          IN  (r.err = "Ok" /\ now <= c.expiration_timestamp) =>
                 r.st.lamports[c.merchant] <= lamports[c.merchant]

\* The same for the caller of a redeem: the fee does not come back to the
\* user who redeems.
C30_NoPayoutToRedeemer ==
    \A user \in Users, campaign \in DOMAIN campaigns,
       coupon \in DOMAIN coupons, purchase_amount \in Purchases,
       platform_treasury \in LamportAccounts :
       LET r == RedeemCouponIx(Cur, now, user, campaign, coupon,
                               purchase_amount, 7, platform_treasury)
       IN  r.err = "Ok" => r.st.lamports[user] <= lamports[user]

\* C31: a redeem that passes its checks and whose fee is 0 (and whose
\* sums fit) succeeds whatever the vault's balance and leaves every
\* balance and the vault's total_service_spent unchanged; a redeem that
\* passes its checks and whose fee is positive and above the vault's
\* balance is rejected with InsufficientVaultBalance, and the coupon
\* stays as it was, unused.
C31_ZeroFeeRedeem ==
    \A user \in Users, campaign \in DOMAIN campaigns, coupon \in DOMAIN coupons,
       purchase_amount \in Purchases, platform_treasury \in Destinations :
       LET r == RedeemCouponIx(Cur, now, user, campaign, coupon,
                               purchase_amount, 7, platform_treasury)
           c == campaigns[campaign]
           k == coupons[coupon]
           vault == VaultPda(campaign)
           pre == /\ vault \in DOMAIN vaults
                  /\ k.campaign = campaign
                  /\ k.owner = user
                  /\ now <= c.expiration_timestamp
                  /\ c.product_code = 7
                  /\ c.used_coupons < c.total_coupons
                  /\ ~k.used
                  /\ ~k.listed
                  /\ ~ProductExceeds(purchase_amount, c.discount_bps, MaxU64)
           raw == (purchase_amount * c.discount_bps) \div BpsDenominator
           d == IF raw > c.max_discount_lamports THEN c.max_discount_lamports
                ELSE raw
           fee == (d * c.service_fee_bps) \div BpsDenominator
           sums_fit ==
              /\ ~SumExceeds(c.total_purchase_amount, purchase_amount, MaxU64)
              /\ ~SumExceeds(c.total_discount_lamports, d, MaxU64)
       IN  /\ (pre /\ fee = 0 /\ sums_fit) =>
                 /\ r.err = "Ok"
                 /\ r.fee = 0
                 /\ r.st.lamports = lamports
                 /\ r.st.vaults = vaults
                 /\ coupon \notin DOMAIN r.st.coupons
           /\ (pre /\ fee > 0 /\ lamports[vault] < fee) =>
                 /\ r.err = "InsufficientVaultBalance"
                 /\ Commit(r).coupons = coupons
                 /\ ~Commit(r).coupons[coupon].used
                 /\ Commit(r) = Cur

\* With an empty vault the owner's redeem of a small purchase, whose fee
\* rounds to 0, succeeds, and the redeem of a large one, whose fee is
\* positive, is refused.
C31_Witness ==
    \E user \in Users, campaign \in DOMAIN campaigns, coupon \in DOMAIN coupons :
       LET r == RedeemCouponIx(Cur, now, user, campaign, coupon, 100000, 7,
                               Treasury)
           c == campaigns[campaign]
       IN  /\ lamports[VaultPda(campaign)] = 0
           /\ c.service_fee_bps > 0
           /\ r.err = "Ok"
           /\ r.fee = 0
           /\ r.discount > 0
           /\ r.st.lamports[Treasury] = lamports[Treasury]
           /\ RedeemCouponIx(Cur, now, user, campaign, coupon, MaxU64, 7,
                             Treasury).err = "InsufficientVaultBalance"

\* The same zero-fee redeem with a funded vault leaves its balance alone.
C31_WitnessFunded ==
    \E user \in Users, campaign \in DOMAIN campaigns, coupon \in DOMAIN coupons :
       LET r == RedeemCouponIx(Cur, now, user, campaign, coupon, 100000, 7,
                               Treasury)
       IN  /\ lamports[VaultPda(campaign)] > 0
           /\ r.err = "Ok"
           /\ r.fee = 0
           /\ r.st.lamports = lamports

\* The number of coupon records of the campaign in the coupon table cps.
CouponsOf(campaign, cps) ==
    Cardinality({k \in DOMAIN cps : cps[k].campaign = campaign})

\* Coupons minted and neither redeemed nor on record: those destroyed by
\* expire_coupon.
ExpiredOf(campaign, cs, cps) ==
    cs[campaign].minted_coupons - cs[campaign].used_coupons
        - CouponsOf(campaign, cps)

IsExpireOf(campaign) ==
    \E merchant \in MintSigners, coupon \in DOMAIN coupons :
       LET r == ExpireCouponIx(Cur, now, merchant, campaign, coupon)
       IN  r.err = "Ok" /\ Nxt = r.st

C32_Counters ==
    /\ \A campaign \in DOMAIN campaigns :
          /\ campaigns[campaign].used_coupons
                 <= campaigns[campaign].minted_coupons
          /\ ExpiredOf(campaign, campaigns, coupons) >= 0
    /\ \A coupon \in DOMAIN coupons :
          LET c == campaigns[coupons[coupon].campaign]
          IN  c.used_coupons < c.total_coupons
    /\ \A user \in Users, campaign \in DOMAIN campaigns,
          coupon \in DOMAIN coupons, purchase_amount \in Purchases,
          product_code \in ProductCodes :
          RedeemCouponIx(Cur, now, user, campaign, coupon, purchase_amount,
                         product_code, Treasury).err # "NoCouponsLeft"

C32_CountersStep ==
    \A campaign \in DOMAIN campaigns :
       LET before == ExpiredOf(campaign, campaigns, coupons)
           after == ExpiredOf(campaign, campaigns', coupons')
       IN  /\ after \in {before, before + 1}
           /\ after = before + 1 <=> IsExpireOf(campaign)

\* C32: in every reachable state used_coupons <= minted_coupons for every
\* campaign; the number of coupon records of a campaign is minted_coupons
\* minus used_coupons minus the number of its coupons destroyed by
\* expire_coupon (the difference is 0 when the campaign is created, grows
\* by one in a successful expire_coupon step and is unchanged by every
\* other step); and for an existing coupon used_coupons < total_coupons,
\* so that no redeem of an existing coupon fails with NoCouponsLeft.
C32_CouponAccounting == []C32_Counters /\ [][C32_CountersStep]_vars

\* A campaign with two coupons minted, one redeemed and one on record.
C32_Witness ==
    \E campaign \in DOMAIN campaigns :
       /\ campaigns[campaign].minted_coupons = 2
       /\ campaigns[campaign].used_coupons = 1
       /\ CouponsOf(campaign, coupons) = 1

\* A campaign one of whose coupons was destroyed by expire_coupon.
C32_WitnessExpired ==
    \E campaign \in DOMAIN campaigns :
       /\ campaigns[campaign].minted_coupons = 1
       /\ campaigns[campaign].used_coupons = 0
       /\ CouponsOf(campaign, coupons) = 0

\* C33: a successful transfer_lamports(from, to, amount) out of a vault
\* conserves the sum of all balances, lowers from by amount and raises to
\* by amount, for every destination, the vault itself included (where the
\* two changes cancel).
C33_TransferLamportsExact ==
    \A from \in DOMAIN vaults, to \in LamportAccounts, amount \in {0, 100} :
       LET r == transfer_lamports(Cur, from, to, amount)
       IN  r.err = "Ok" =>
              /\ TotalLamports(r.st) = TotalLamports(Cur)
              /\ from # to =>
                    /\ r.st.lamports[from] = lamports[from] - amount
                    /\ r.st.lamports[to] = lamports[to] + amount
              /\ from = to => r.st.lamports[from] = lamports[from]

\* The same for distinct accounts only.
C33_TransferBetweenDistinctAccounts ==
    \A from \in DOMAIN vaults, to \in LamportAccounts, amount \in {0, 100} :
       LET r == transfer_lamports(Cur, from, to, amount)
       IN  (r.err = "Ok" /\ from # to) =>
              /\ TotalLamports(r.st) = TotalLamports(Cur)
              /\ r.st.lamports[from] = lamports[from] - amount
              /\ r.st.lamports[to] = lamports[to] + amount
              /\ \A a \in LamportAccounts \ {from, to} :
                    r.st.lamports[a] = lamports[a]

\* Every step of the program leaves the sum of all balances unchanged.
C33_StepsConserveFunds ==
    [][TotalLamports(Nxt) = TotalLamports(Cur)]_vars

\* A mint and a redeem that name the campaign's own vault as treasury are
\* rejected by the host.
C33_OwnVaultAsTreasuryRejected ==
    \A merchant \in Merchants, campaign \in DOMAIN campaigns,
       recipient \in Users :
       LET r == MintCouponIx(Cur, merchant, campaign,
                             campaigns[campaign].campaign_id, 0, recipient,
                             VaultPda(campaign))
       IN  r.err # "Ok"

\* C34: in every reachable state no existing coupon record has
\* used = true (a successful redeem sets used and its exit destroys the
\* record in the same step); hence no list, buy or redeem call on an
\* existing coupon is rejected with CouponAlreadyUsed, and every coupon
\* destroyed by expire_coupon is unused.
C34_NoUsedCouponOnRecord ==
    /\ \A coupon \in DOMAIN coupons : ~coupons[coupon].used
    /\ \A user \in Users, campaign \in DOMAIN campaigns,
          coupon \in DOMAIN coupons :
          /\ \A purchase_amount \in Purchases, product_code \in ProductCodes :
                LET r == RedeemCouponIx(Cur, now, user, campaign, coupon,
                                        purchase_amount, product_code, Treasury)
                IN  /\ r.err # "CouponAlreadyUsed"
                    /\ r.err = "Ok" => coupon \notin DOMAIN r.st.coupons
          /\ \A sale_price_lamports \in Prices :
                ListCouponForSaleIx(Cur, user, campaign, coupon,
                                    sale_price_lamports).err
                    # "CouponAlreadyUsed"
          /\ \A seller \in Users :
                BuyListedCouponIx(Cur, user, seller, campaign, coupon).err
                    # "CouponAlreadyUsed"
    /\ \A merchant \in MintSigners, campaign \in DOMAIN campaigns,
          coupon \in DOMAIN coupons :
          ExpireCouponIx(Cur, now, merchant, campaign, coupon).err = "Ok"
              => ~coupons[coupon].used

\* After a redeem of the campaign a coupon of it is on record, unused, and
\* its own redeem removes it.
C34_Witness ==
    \E user \in Users, campaign \in DOMAIN campaigns, coupon \in DOMAIN coupons :
       LET r == RedeemCouponIx(Cur, now, user, campaign, coupon, 100000, 7,
                               Treasury)
       IN  /\ campaigns[campaign].used_coupons > 0
           /\ coupons[coupon].campaign = campaign
           /\ ~coupons[coupon].used
           /\ r.err = "Ok"
           /\ coupon \notin DOMAIN r.st.coupons

\* After expiry the merchant destroys an unused coupon of a campaign that
\* has had a redeem.
C34_WitnessExpire ==
    \E campaign \in DOMAIN campaigns, coupon \in DOMAIN coupons :
       /\ campaigns[campaign].used_coupons > 0
       /\ ExpireCouponIx(Cur, now, campaigns[campaign].merchant, campaign,
                         coupon).err = "Ok"

\* C35: in every reachable state the sale price of every listed coupon is
\* within the bounds of its campaign (0 < sale_price <= max_discount and
\* sale_price <= floor(max_discount * resale_bps / 10000)) and no buy of a
\* listed coupon is rejected with InvalidResalePrice or Overflow.
C35_ListedPriceInBounds ==
    /\ \A coupon \in DOMAIN coupons :
          LET k == coupons[coupon]
          IN  k.listed =>
                 /\ k.campaign \in DOMAIN campaigns
                 /\ PriceInRange(k.sale_price_lamports, campaigns[k.campaign])
    /\ \A buyer \in Users, seller \in Users, campaign \in DOMAIN campaigns,
          coupon \in DOMAIN coupons :
          coupons[coupon].listed =>
             BuyListedCouponIx(Cur, buyer, seller, campaign, coupon).err
                 \notin {"InvalidResalePrice", "Overflow"}

\* No step changes max_discount_lamports or resale_bps of a campaign on
\* record, and no step removes a campaign record.
C35_BoundsFixedStep ==
    \A campaign \in DOMAIN campaigns :
       /\ campaign \in DOMAIN campaigns'
       /\ campaigns'[campaign].max_discount_lamports
              = campaigns[campaign].max_discount_lamports
       /\ campaigns'[campaign].resale_bps = campaigns[campaign].resale_bps

C35_ListedPriceStaysValid ==
    /\ [](C35_ListedPriceInBounds)
    /\ [][C35_BoundsFixedStep]_vars

\* A coupon is listed at the highest price of its campaign and a buy of it
\* is accepted.
C35_Witness ==
    \E buyer \in Users, coupon \in DOMAIN coupons :
       LET k == coupons[coupon]
       IN  /\ k.listed
           /\ k.sale_price_lamports = 2500
           /\ campaigns[k.campaign].max_discount_lamports = 5000
           /\ campaigns[k.campaign].resale_bps = 5000
           /\ BuyListedCouponIx(Cur, buyer, k.owner, k.campaign, coupon).err
                  = "Ok"

\* C36: while a vault is on record its total_mint_spent equals the
\* campaign's minted_coupons times its mint_cost_lamports, and no step
\* lowers the total_mint_spent or total_service_spent of a vault.
C36_MintSpentMatchesMinted ==
    \A campaign \in DOMAIN campaigns :
       VaultPda(campaign) \in DOMAIN vaults =>
          vaults[VaultPda(campaign)].total_mint_spent
              = campaigns[campaign].minted_coupons
                    * campaigns[campaign].mint_cost_lamports

C36_SpentNeverDecreasesStep ==
    \A vault \in DOMAIN vaults \cap DOMAIN vaults' :
       /\ vaults'[vault].total_mint_spent >= vaults[vault].total_mint_spent
       /\ vaults'[vault].total_service_spent
              >= vaults[vault].total_service_spent

C36_VaultAnalytics ==
    /\ [](C36_MintSpentMatchesMinted)
    /\ [][C36_SpentNeverDecreasesStep]_vars

\* Two coupons have been minted from one vault, which records twice the
\* mint cost.
C36_Witness ==
    \E campaign \in DOMAIN campaigns :
       /\ VaultPda(campaign) \in DOMAIN vaults
       /\ campaigns[campaign].minted_coupons = 2
       /\ campaigns[campaign].mint_cost_lamports = 100
       /\ vaults[VaultPda(campaign)].total_mint_spent = 200

\* A vault has paid for a mint and for a service fee.
C36_WitnessService ==
    \E vault \in DOMAIN vaults :
       /\ vaults[vault].total_mint_spent > 0
       /\ vaults[vault].total_service_spent > 0

\* Some redeem_coupon call on the campaign is accepted in the current state.
RedeemEnabled(campaign) ==
    \E user \in Users, coupon \in DOMAIN coupons,
       purchase_amount \in Purchases, product_code \in ProductCodes,
       platform_treasury \in LamportAccounts :
       RedeemCouponIx(Cur, now, user, campaign, coupon, purchase_amount,
                      product_code, platform_treasury).err = "Ok"

\* Some close_campaign_vault or expire_coupon call on the campaign is
\* accepted in the current state.
CloseOrExpireEnabled(campaign) ==
    \/ \E merchant \in MintSigners :
          CloseCampaignVaultIx(Cur, now, merchant, campaign).err = "Ok"
    \/ \E merchant \in MintSigners, coupon \in DOMAIN coupons :
          ExpireCouponIx(Cur, now, merchant, campaign, coupon).err = "Ok"

\* The vault of the campaign has been closed: the campaign is on record
\* (it is created together with its vault) and its vault is not.
VaultClosed(campaign, cs, vs) ==
    campaign \in DOMAIN cs /\ VaultPda(campaign) \notin DOMAIN vs

\* C37: redeem_coupon and close_campaign_vault / expire_coupon are never
\* both enabled for one campaign: redeem is accepted only while
\* now <= expiration_timestamp, the other two only when
\* now > expiration_timestamp; and for a campaign whose vault has been
\* closed every mint and every redeem is rejected.
C37_ExpiryExclusion ==
    \A campaign \in DOMAIN campaigns :
       /\ ~(RedeemEnabled(campaign) /\ CloseOrExpireEnabled(campaign))
       /\ RedeemEnabled(campaign)
              => now <= campaigns[campaign].expiration_timestamp
       /\ CloseOrExpireEnabled(campaign)
              => now > campaigns[campaign].expiration_timestamp
       /\ VaultClosed(campaign, campaigns, vaults) =>
             /\ ~RedeemEnabled(campaign)
             /\ \A merchant \in MintSigners, campaign_id \in CampaignIds,
                   coupon_index \in CouponIndexes, recipient \in Users,
                   platform_treasury \in LamportAccounts :
                   MintCouponIx(Cur, merchant, campaign, campaign_id,
                                coupon_index, recipient,
                                platform_treasury).err # "Ok"

\* The clock never goes back, and a closed vault stays closed.
C37_ClosedStaysClosedStep ==
    /\ now' >= now
    /\ \A campaign \in DOMAIN campaigns :
          VaultClosed(campaign, campaigns, vaults)
              => VaultClosed(campaign, campaigns', vaults')

C37_RedeemBeforeCloseAfter ==
    /\ [](C37_ExpiryExclusion)
    /\ [][C37_ClosedStaysClosedStep]_vars

\* The vault of a campaign is closed while a coupon of the campaign is still
\* on record: its owner's redeem and a further mint are rejected.
C37_Witness ==
    \E campaign \in DOMAIN campaigns, coupon \in DOMAIN coupons :
       /\ VaultClosed(campaign, campaigns, vaults)
       /\ coupons[coupon].campaign = campaign
       /\ RedeemCouponIx(Cur, now, coupons[coupon].owner, campaign, coupon,
                         100000, 7, Treasury).err # "Ok"
       /\ campaigns[campaign].minted_coupons
              < campaigns[campaign].total_coupons

\* At now = expiration_timestamp a redeem is accepted and the merchant's
\* close_campaign_vault and expire_coupon are refused as not yet expired.
C37_WitnessAtExpiry ==
    \E campaign \in DOMAIN campaigns, coupon \in DOMAIN coupons :
       /\ now = campaigns[campaign].expiration_timestamp
       /\ RedeemEnabled(campaign)
       /\ CloseCampaignVaultIx(Cur, now, campaigns[campaign].merchant,
                               campaign).err = "CampaignNotExpired"
       /\ ExpireCouponIx(Cur, now, campaigns[campaign].merchant, campaign,
                         coupon).err = "CampaignNotExpired"

\* After expiry close_campaign_vault and expire_coupon are both accepted.
C37_WitnessAfterExpiry ==
    \E campaign \in DOMAIN campaigns, coupon \in DOMAIN coupons :
       /\ now > campaigns[campaign].expiration_timestamp
       /\ CloseCampaignVaultIx(Cur, now, campaigns[campaign].merchant,
                               campaign).err = "Ok"
       /\ ExpireCouponIx(Cur, now, campaigns[campaign].merchant, campaign,
                         coupon).err = "Ok"

\* The step is a successful transfer_coupon of the coupon signed by its
\* current owner.
IsTransferByOwner(coupon) ==
    \E new_owner \in Users :
       LET r == TransferCouponIx(Cur, coupons[coupon].owner, coupon, new_owner)
       IN  r.err = "Ok" /\ Nxt = r.st /\ r.st.coupons[coupon].owner = new_owner

\* The step is a successful buy_listed_coupon of the coupon, listed, from
\* its current owner.
IsBuyOfListed(coupon) ==
    \E buyer \in Users :
       LET r == BuyListedCouponIx(Cur, buyer, coupons[coupon].owner,
                                  coupons[coupon].campaign, coupon)
       IN  /\ coupons[coupon].listed
           /\ r.err = "Ok" /\ Nxt = r.st
           /\ r.st.coupons[coupon].owner = buyer

\* The step is a successful list_coupon_for_sale of the coupon signed by its
\* current owner.
IsListByOwner(coupon) ==
    \E sale_price_lamports \in Prices :
       LET r == ListCouponForSaleIx(Cur, coupons[coupon].owner,
                                    coupons[coupon].campaign, coupon,
                                    sale_price_lamports)
       IN  r.err = "Ok" /\ Nxt = r.st

\* In a step the owner of a coupon that stays on record changes only by a
\* transfer signed by the owner or by a buy of the listed coupon, and the
\* coupon becomes listed only by a list signed by the owner.
C38_OwnerStep ==
    \A coupon \in DOMAIN coupons \cap DOMAIN coupons' :
       /\ coupons'[coupon].owner # coupons[coupon].owner
             => (IsTransferByOwner(coupon) \/ IsBuyOfListed(coupon))
       /\ (~coupons[coupon].listed /\ coupons'[coupon].listed)
             => IsListByOwner(coupon)

\* Every accepted call other than transfer and buy leaves the owner of each
\* coupon it keeps on record; no list, redeem or transfer signed by anyone
\* but the owner is accepted, and no buy of an unlisted coupon or from
\* anyone but the owner is accepted.
C38_OwnerOnly ==
    \A coupon \in DOMAIN coupons, user \in Users, campaign \in DOMAIN campaigns :
       LET k == coupons[coupon]
           Kept(r) == coupon \in DOMAIN r.st.coupons
                          => r.st.coupons[coupon].owner = k.owner
       IN  /\ \A sale_price_lamports \in Prices :
                 LET r == ListCouponForSaleIx(Cur, user, campaign, coupon,
                                              sale_price_lamports)
                 IN  /\ Kept(r)
                     /\ r.err = "Ok" => user = k.owner
           /\ \A purchase_amount \in Purchases, product_code \in ProductCodes,
                 platform_treasury \in LamportAccounts :
                 LET r == RedeemCouponIx(Cur, now, user, campaign, coupon,
                                         purchase_amount, product_code,
                                         platform_treasury)
                 IN  /\ Kept(r)
                     /\ r.err = "Ok" => user = k.owner
           /\ \A new_owner \in Users :
                 LET r == TransferCouponIx(Cur, user, coupon, new_owner)
                 IN  /\ r.err = "Ok" => user = k.owner
                     /\ r.err # "Ok" => Kept(r)
           /\ \A seller \in Users :
                 LET r == BuyListedCouponIx(Cur, user, seller, campaign, coupon)
                 IN  /\ r.err = "Ok" => (k.listed /\ seller = k.owner)
                     /\ r.err # "Ok" => Kept(r)
           /\ \A merchant \in MintSigners :
                 /\ Kept(CloseCampaignVaultIx(Cur, now, merchant, campaign))
                 /\ \A other \in DOMAIN coupons :
                       Kept(ExpireCouponIx(Cur, now, merchant, campaign, other))
                 /\ \A campaign_id \in CampaignIds,
                       coupon_index \in CouponIndexes,
                       platform_treasury \in LamportAccounts :
                       Kept(MintCouponIx(Cur, merchant, campaign, campaign_id,
                                         coupon_index, user, platform_treasury))

\* C38: the owner of a coupon changes only by a transfer signed by its
\* current owner or by a buy of the coupon while it is listed, a coupon
\* becomes listed only by its owner's list, no other accepted call and no
\* rejected call changes the owner of a coupon on record, and only the
\* current owner's list and redeem are accepted.
C38_OwnerControlsCoupon ==
    /\ [](C38_OwnerOnly)
    /\ [][C38_OwnerStep]_vars

\* A coupon minted to one user is on record owned by the other, unlisted:
\* the former owner's transfer, list and redeem are refused.
C38_Witness ==
    \E coupon \in DOMAIN coupons, user \in Users :
       LET k == coupons[coupon]
       IN  /\ k.owner # user
           /\ ~k.listed
           /\ campaigns[k.campaign].requires_wallet
           /\ campaigns[k.campaign].target_wallet = user
           /\ TransferCouponIx(Cur, user, coupon, user).err = "NotCouponOwner"
           /\ ListCouponForSaleIx(Cur, user, k.campaign, coupon, 2500).err
                  = "NotCouponOwner"
           /\ RedeemCouponIx(Cur, now, user, k.campaign, coupon, 100000, 7,
                             Treasury).err = "NotCouponOwner"

\* A listed coupon can be bought from its owner by the other user.
C38_WitnessBuy ==
    \E coupon \in DOMAIN coupons, buyer \in Users :
       LET k == coupons[coupon]
           r == BuyListedCouponIx(Cur, buyer, k.owner, k.campaign, coupon)
       IN  /\ k.listed
           /\ r.err = "Ok"
           /\ r.st.coupons[coupon].owner = buyer

\* The wallets that compete for a coupon of the seller: the other user and
\* the merchant's wallet (any signer may buy).
BuyersOf(seller) == (Users \cup Merchants) \ {seller}

\* The ledger with each of the wallets holding at least the amount.
WithFunds(S, wallets, amount) ==
    [S EXCEPT !.lamports =
        [a \in DOMAIN S.lamports |->
            IF a \in wallets /\ S.lamports[a] < amount THEN amount
            ELSE S.lamports[a]]]

\* The serialized calls on one coupon of the seller: a buy of each buyer,
\* and the seller's transfer (to itself, to a buyer), list and redeem.
CallsOn(seller) ==
    [op : {"buy"}, who : BuyersOf(seller)]
        \cup [op : {"transfer"}, who : {seller} \cup (Users \ {seller})]
        \cup [op : {"list", "redeem"}, who : {seller}]

\* The result of one of the calls on the ledger S.
CallOn(S, seller, campaign, coupon, call) ==
    CASE call.op = "buy" ->
             BuyListedCouponIx(S, call.who, seller, campaign, coupon)
      [] call.op = "transfer" ->
             TransferCouponIx(S, seller, coupon, call.who)
      [] call.op = "list" ->
             ListCouponForSaleIx(S, seller, campaign, coupon, 2500)
      [] OTHER ->
             RedeemCouponIx(S, now, seller, campaign, coupon, 100000, 7,
                            Treasury)

\* One call of an interleaving, run on S after nbuys accepted buys: a buy
\* debits the buyer the price exactly when it makes the buyer the owner,
\* and then it pays the seller the price and ends the listing; an accepted
\* redeem of the seller finds the coupon unlisted and never bought.
CallSound(S, seller, coupon, call, r, nbuys) ==
    LET T == CommitOn(S, r)
        onRecord == coupon \in DOMAIN S.coupons
        price == IF onRecord THEN S.coupons[coupon].sale_price_lamports ELSE 0
        debited == price > 0 /\ T.lamports[call.who] = S.lamports[call.who] - price
        acquired == /\ onRecord
                    /\ S.coupons[coupon].owner # call.who
                    /\ coupon \in DOMAIN T.coupons
                    /\ T.coupons[coupon].owner = call.who
    IN  /\ call.op = "buy" =>
              /\ debited <=> acquired
              /\ debited <=> r.err = "Ok"
              /\ r.err = "Ok" =>
                    /\ S.coupons[coupon].listed
                    /\ S.coupons[coupon].owner = seller
                    /\ ~T.coupons[coupon].listed
                    /\ T.lamports[seller] = S.lamports[seller] + price
              /\ r.err # "Ok" => T.lamports = S.lamports
        /\ (call.op = "redeem" /\ r.err = "Ok") =>
              /\ ~S.coupons[coupon].listed
              /\ S.coupons[coupon].owner = seller
              /\ nbuys = 0

RECURSIVE InterleavingsSound(_, _, _, _, _, _, _)
\* Every order of the remaining calls, run from S, is sound call by call,
\* accepts at most one buy and never leaves the seller with more than the
\* starting balance plus one price.
InterleavingsSound(S, seller, campaign, coupon, remaining, nbuys, ceiling) ==
    \A call \in remaining :
       LET r == CallOn(S, seller, campaign, coupon, call)
           T == CommitOn(S, r)
           n == IF call.op = "buy" /\ r.err = "Ok" THEN nbuys + 1 ELSE nbuys
       IN  /\ CallSound(S, seller, coupon, call, r, nbuys)
           /\ n <= 1
           /\ T.lamports[seller] <= ceiling
           /\ InterleavingsSound(T, seller, campaign, coupon,
                                 remaining \ {call}, n, ceiling)

\* C39: from every reachable state with a listed coupon, in every order of
\* the buyers' buy calls and the seller's transfer, list and redeem calls
\* on that coupon, a buyer is debited the sale price exactly when that buy
\* makes the buyer the owner, at most one buy is accepted, the seller is
\* paid at most once, and the seller's redeem is accepted neither while the
\* coupon is listed nor after a buy; after an accepted buy no buy of the
\* coupon from anyone is accepted until it is listed again.
C39_BuyInterleavings ==
    \A coupon \in DOMAIN coupons :
       LET k == coupons[coupon]
           seller == k.owner
           S0 == WithFunds(Cur, BuyersOf(seller), 3000)
       IN  k.listed =>
              /\ InterleavingsSound(S0, seller, k.campaign, coupon,
                                    CallsOn(seller), 0,
                                    S0.lamports[seller] + k.sale_price_lamports)
              /\ \A platform_treasury \in LamportAccounts,
                    purchase_amount \in Purchases,
                    product_code \in ProductCodes :
                    RedeemCouponIx(Cur, now, seller, k.campaign, coupon,
                                   purchase_amount, product_code,
                                   platform_treasury).err # "Ok"
              /\ \A buyer \in BuyersOf(seller) :
                    LET r == BuyListedCouponIx(S0, buyer, seller, k.campaign,
                                               coupon)
                    IN  r.err = "Ok" =>
                           \A b \in Users \cup Merchants, s \in Users \cup Merchants :
                              BuyListedCouponIx(r.st, b, s, k.campaign,
                                                coupon).err = "CouponNotListed"

\* A listed coupon is bought by one buyer; then the other buyer's buy is
\* refused as not listed and the seller's redeem and list as not the owner,
\* while before the buy the seller's redeem is refused as listed.
C39_Witness ==
    \E coupon \in DOMAIN coupons, b1 \in Users, b2 \in Merchants :
       LET k == coupons[coupon]
           seller == k.owner
           S0 == WithFunds(Cur, {b2}, 3000)
           r1 == BuyListedCouponIx(S0, b1, seller, k.campaign, coupon)
       IN  /\ k.listed
           /\ now <= campaigns[k.campaign].expiration_timestamp
           /\ RedeemCouponIx(Cur, now, seller, k.campaign, coupon, 100000, 7,
                             Treasury).err = "CouponListed"
           /\ r1.err = "Ok"
           /\ r1.st.lamports[b1] = lamports[b1] - 2500
           /\ r1.st.lamports[seller] = lamports[seller] + 2500
           /\ r1.st.coupons[coupon].owner = b1
           /\ BuyListedCouponIx(r1.st, b2, seller, k.campaign, coupon).err
                  = "CouponNotListed"
           /\ RedeemCouponIx(r1.st, now, seller, k.campaign, coupon, 100000, 7,
                             Treasury).err = "NotCouponOwner"
           /\ BuyListedCouponIx(S0, b2, seller, k.campaign, coupon).err = "Ok"

\* A buy has been paid: the buyer holds the coupon and the price has moved
\* from the buyer to the seller.
C39_WitnessBought ==
    \E coupon \in DOMAIN coupons, seller \in Users :
       /\ coupons[coupon].owner # seller
       /\ ~coupons[coupon].listed
       /\ lamports[coupons[coupon].owner] = 500
       /\ lamports[seller] = 5500

\* The seller withdraws the listing by a transfer to itself and then
\* redeems the coupon; afterwards no buy of it is accepted.
C39_WitnessWithdrawn ==
    \E coupon \in DOMAIN coupons :
       LET k == coupons[coupon]
           seller == k.owner
           S0 == WithFunds(Cur, BuyersOf(seller), 3000)
           t == TransferCouponIx(S0, seller, coupon, seller)
           r == RedeemCouponIx(t.st, now, seller, k.campaign, coupon, 100000,
                               7, Treasury)
       IN  /\ k.listed
           /\ t.err = "Ok"
           /\ r.err = "Ok"
           /\ \A buyer \in BuyersOf(seller) :
                 BuyListedCouponIx(r.st, buyer, seller, k.campaign,
                                   coupon).err = "AccountNotInitialized"

====
